---------------------------- MODULE Spec2Model ----------------------------
(***************************************************************************)
(* pi-second-brain: the daily-note engine (daily.ts), the knowledge        *)
(* extractors and writers (extractor.ts) and the lifecycle handlers        *)
(* (index.ts), as a state machine over the knowledge-base file tree.       *)
(*                                                                         *)
(* Documents are strings; a file tree is a function from path to content   *)
(* whose DOMAIN is the set of files that exist.                            *)
(***************************************************************************)
EXTENDS Integers, Sequences, FiniteSets, TLC

VARIABLES
    fs,             \* file tree of ~/second-brain: path -> content
    today,          \* the clock's calendar day (day of March 2026)
    reindexQueued,  \* index.ts:170
    pc,             \* position of the session_before_compact handler
    last,           \* the operation that ran last: name, arguments, file tree before, result
    prev,           \* the operation that ran before it
    ops,            \* number of operations run so far
    reply           \* the completion provider's reply text

vars == <<fs, today, reindexQueued, pc, last, prev, ops, reply>>

----------------------------------------------------------------------------
(* Bounds *)

MaxDay == 3       \* days of March 2026 the clock can reach
MaxOps == 1       \* daily-note operations in one run of the engine
MaxRuns == 2      \* agent_end runs in one session
MaxSteps == 4     \* steps of the session_before_compact handler in one session
MaxWrites == 2    \* calls of writeDeepExtraction in one run
MaxEvents == 3    \* lifecycle events and tool calls in one session
MaxTurns == 3     \* note creations and midnights in one run of the rollover
MaxMessages == 4  \* messages in the list a context event carries

Days == 1..MaxDay

----------------------------------------------------------------------------
(* String primitives (JavaScript String methods) *)

\* s.charAt(i - 1): the i-th character, "" outside the string
Char(s, i) == IF i >= 1 /\ i <= Len(s) THEN SubSeq(s, i, i) ELSE ""

Ws == {" ", "\t"}

Max(a, b) == IF a >= b THEN a ELSE b
Min(a, b) == IF a <= b THEN a ELSE b

\* s.startsWith(p)
StartsWith(s, p) == Len(s) >= Len(p) /\ SubSeq(s, 1, Len(p)) = p

\* s.endsWith(p)
EndsWith(s, p) == Len(s) >= Len(p) /\ SubSeq(s, Len(s) - Len(p) + 1, Len(s)) = p

\* the least element of a non-empty set of integers
MinOf(S) == CHOOSE x \in S : \A y \in S : x <= y

\* the greatest element of a non-empty set of integers
MaxOf(S) == CHOOSE x \in S : \A y \in S : x >= y

\* s.indexOf(p, from), 1-based; 0 when p does not occur
IndexOfFrom(s, p, i) ==
    LET hits == {j \in i..(Len(s) - Len(p) + 1) : SubSeq(s, j, j + Len(p) - 1) = p}
    IN IF hits = {} THEN 0 ELSE MinOf(hits)

IndexOf(s, p) == IndexOfFrom(s, p, 1)

\* s.includes(p)
Includes(s, p) == IndexOf(s, p) # 0

\* first index >= i whose character is not whitespace (Len(s)+1 when none)
SkipWs(s, i) ==
    LET rest == {j \in i..Len(s) : Char(s, j) \notin Ws}
    IN IF rest = {} THEN Max(i, Len(s) + 1) ELSE MinOf(rest)

\* last index <= i whose character is not whitespace (0 when none)
SkipWsBack(s, i) ==
    LET rest == {j \in 1..i : Char(s, j) \notin Ws}
    IN IF rest = {} THEN 0 ELSE MaxOf(rest)

\* s.trim()
Trim(s) == SubSeq(s, SkipWs(s, 1), SkipWsBack(s, Len(s)))

\* s.split(sep) for a one-character separator
SplitOn(s, sep) ==
    LET cuts == {i \in 1..Len(s) : Char(s, i) = sep}
        n == Cardinality(cuts)
        cut(k) == IF k = 0 THEN 0
                  ELSE IF k = n + 1 THEN Len(s) + 1
                  ELSE CHOOSE x \in cuts : Cardinality({y \in cuts : y < x}) = k - 1
    IN [k \in 1..(n + 1) |-> SubSeq(s, cut(k - 1) + 1, cut(k) - 1)]

\* s.split("\n")
Split(s) == SplitOn(s, "\n")

\* lines.join(sep)
RECURSIVE JoinWith(_, _)
JoinWith(lines, sep) ==
    IF Len(lines) = 0 THEN ""
    ELSE IF Len(lines) = 1 THEN lines[1]
    ELSE lines[1] \o sep \o JoinWith(Tail(lines), sep)

Join(lines) == JoinWith(lines, "\n")

\* variant: a delete count of 1, the line at the index is replaced
SpliceOver(lines, at0, item) ==
    SubSeq(lines, 1, at0) \o <<item>> \o SubSeq(lines, at0 + 2, Len(lines))

\* lines.splice(at0, 0, item) with a 0-based index at0
SpliceIn(lines, at0, item) ==
    SubSeq(lines, 1, at0) \o <<item>> \o SubSeq(lines, at0 + 1, Len(lines))

\* s.replace(/p/g, r) for a literal p and a replacement r without "$"
RECURSIVE ReplaceAll(_, _, _)
ReplaceAll(s, p, r) ==
    LET i == IndexOf(s, p) IN
    IF i = 0 THEN s
    ELSE SubSeq(s, 1, i - 1) \o r \o ReplaceAll(SubSeq(s, i + Len(p), Len(s)), p, r)

\* GetSubstitution of String.prototype.replace for a string pattern: in the
\* replacement text "$$" stands for "$", "$&" for the matched text and "$'"
\* for the text after the match; any other "$" stands for itself.  (The
\* fourth pattern, "$" before a grave accent, needs a character that no
\* document of this model contains.)  r is scanned from index i, one "$" at
\* a time.
RECURSIVE GetSubstitution(_, _, _, _)
GetSubstitution(r, i, matched, after) ==
    LET d == IndexOfFrom(r, "$", i) IN
    IF d = 0 THEN SubSeq(r, i, Len(r))
    ELSE LET c == IF d < Len(r) THEN Char(r, d + 1) ELSE "" IN
         SubSeq(r, i, d - 1)
         \o (IF c = "$" THEN "$" \o GetSubstitution(r, d + 2, matched, after)
             ELSE IF c = "&" THEN matched \o GetSubstitution(r, d + 2, matched, after)
             ELSE IF c = "'" THEN after \o GetSubstitution(r, d + 2, matched, after)
             ELSE "$" \o GetSubstitution(r, d + 1, matched, after))

\* s.replace(p, r) for a string pattern p: the first occurrence only
ReplaceFirst(s, p, r) ==
    LET i == IndexOf(s, p) IN
    IF i = 0 THEN s
    ELSE LET before == SubSeq(s, 1, i - 1)
             after  == SubSeq(s, i + Len(p), Len(s))
         IN before \o GetSubstitution(r, 1, p, after) \o after

----------------------------------------------------------------------------
(* The file tree (node:fs) *)

\* existsSync(p)
Exists(f, p) == p \in DOMAIN f

\* writeFileSync(p, c, "utf-8")
WriteFile(f, p, c) == [q \in (DOMAIN f) \cup {p} |-> IF q = p THEN c ELSE f[q]]

NoFiles == [q \in {} |-> ""]

----------------------------------------------------------------------------
(* daily.ts: dates and paths.  A day d is the d-th of March 2026, and day 0 *)
(* is the day before the 1st (February 28).                                *)

DAYS == <<"Sunday", "Monday", "Tuesday", "Wednesday", "Thursday", "Friday", "Saturday">>

Digit(n) == <<"0", "1", "2", "3", "4", "5", "6", "7", "8", "9">>[n + 1]

\* String(n).padStart(2, "0")
Pad2(n) == Digit(n \div 10) \o Digit(n % 10)

formatDate(d) == IF d = 0 THEN "2026-02-28" ELSE "2026-03-" \o Pad2(d)

fullDate(d) == IF d = 0 THEN "February 28, 2026" ELSE "March " \o ToString(d) \o ", 2026"

dayName(d) == DAYS[((d + 6) % 7) + 1]

dailyPath(d) == "daily/" \o formatDate(d) \o ".md"

TemplatePath == "templates/daily.md"

\* the built-in skeleton used when no template is installed
Skeleton(d) ==
    "---\ndate: " \o formatDate(d) \o "\n---\n# " \o dayName(d) \o ", " \o fullDate(d)
    \o "\n\n## Priorities\n- [ ] \n\n## Log\n\n## Notes\n\n## Decisions\n\n## Learned\n"

RolledOver == "*(rolled over)*"

----------------------------------------------------------------------------
(* daily.ts: checklist lines *)

NoMatch == [ok |-> FALSE, text |-> ""]

\* line.match(/^-\s+\[m\]\s+(.+)/) for a mark m in marks: group 1, or no match.
\* Both \s+ are greedy; when the second one reaches the end of the line it
\* gives its last character back to (.+).
CheckboxMatch(line, marks) ==
    IF ~(Len(line) >= 1 /\ Char(line, 1) = "-") THEN NoMatch
    ELSE LET j == SkipWs(line, 2) IN
         IF j = 2 \/ j + 2 > Len(line) THEN NoMatch
         ELSE IF ~(Char(line, j) = "[" /\ Char(line, j + 1) \in marks /\ Char(line, j + 2) = "]")
              THEN NoMatch
         ELSE LET k == SkipWs(line, j + 3) IN
              IF k = j + 3 THEN NoMatch
              ELSE IF k <= Len(line) THEN [ok |-> TRUE, text |-> SubSeq(line, k, Len(line))]
              ELSE IF k - 1 > j + 3 THEN [ok |-> TRUE, text |-> Char(line, Len(line))]
              ELSE NoMatch

\* /^-\s+\[\s\]\s+(.+)/
TodoMatch(line) == CheckboxMatch(line, Ws)

\* variant: without the i flag
DoneMatchLowerCase(line) == CheckboxMatch(line, {"x"})

\* /^-\s+\[x\]\s+(.+)/i
DoneMatch(line) == CheckboxMatch(line, {"x", "X"})

\* text.replace(/\s*\*\(rolled over\)\*\s*$/, "")
StripRolledOver(text) ==
    LET e == SkipWsBack(text, Len(text)) IN
    IF e >= Len(RolledOver) /\ SubSeq(text, e - Len(RolledOver) + 1, e) = RolledOver
    THEN SubSeq(text, 1, SkipWsBack(text, e - Len(RolledOver)))
    ELSE text

RECURSIVE ScanIncomplete(_, _, _)
ScanIncomplete(lines, i, inPriorities) ==
    IF i > Len(lines) THEN <<>>
    ELSE IF StartsWith(lines[i], "## Priorities") THEN ScanIncomplete(lines, i + 1, TRUE)
    ELSE IF inPriorities /\ StartsWith(lines[i], "## ") THEN <<>>
    ELSE IF inPriorities
         THEN LET m == TodoMatch(lines[i]) IN
              (IF m.ok /\ Trim(m.text) # "" THEN <<StripRolledOver(m.text)>> ELSE <<>>)
              \o ScanIncomplete(lines, i + 1, inPriorities)
    ELSE ScanIncomplete(lines, i + 1, inPriorities)

extractIncompletePriorities(content) == ScanIncomplete(Split(content), 1, FALSE)

----------------------------------------------------------------------------
(* daily.ts: ensureDailyNote *)

InstantiateTemplate(t, d) ==
    ReplaceAll(ReplaceAll(ReplaceAll(t, "{{DATE}}", formatDate(d)),
                          "{{DAY_NAME}}", dayName(d)),
               "{{FULL_DATE}}", fullDate(d))

\* incomplete.map((p) => "- [ ] " + p + " *(rolled over)*")
RolledLines(incomplete) ==
    [i \in 1..Len(incomplete) |-> "- [ ] " \o incomplete[i] \o " " \o RolledOver]

Placeholder == "- [ ] \n"

\* variant: without a placeholder line the rolled-over lines go to the end
RolloverOrAppend(content, incomplete) ==
    IF Len(incomplete) = 0 THEN content
    ELSE IF Includes(content, Placeholder)
         THEN ReplaceFirst(content, Placeholder, Join(RolledLines(incomplete)) \o "\n" \o Placeholder)
    ELSE content \o Join(RolledLines(incomplete)) \o "\n"

\* content.replace("- [ ] \n", prioritiesSection + "\n- [ ] \n")
Rollover(content, incomplete) ==
    IF Len(incomplete) > 0
    THEN ReplaceFirst(content, Placeholder, Join(RolledLines(incomplete)) \o "\n" \o Placeholder)
    ELSE content

\* variant: the items come from the latest earlier note, not from yesterday's
NewNoteFromLatest(f, d) ==
    LET content == IF Exists(f, TemplatePath)
                   THEN InstantiateTemplate(f[TemplatePath], d)
                   ELSE Skeleton(d)
        earlier == {e \in 0..(d - 1) : Exists(f, dailyPath(e))}
    IN IF earlier # {}
       THEN Rollover(content, extractIncompletePriorities(f[dailyPath(MaxOf(earlier))]))
       ELSE content

\* the content ensureDailyNote(d) writes when it creates the note
NewNote(f, d) ==
    LET content == IF Exists(f, TemplatePath)
                   THEN InstantiateTemplate(f[TemplatePath], d)
                   ELSE Skeleton(d)
        yesterdayPath == dailyPath(d - 1)
    IN IF Exists(f, yesterdayPath)
       THEN Rollover(content, extractIncompletePriorities(f[yesterdayPath]))
       ELSE content

\* variant: the existence check is missing, the note is written on every call
ensureDailyNoteAlways(f, d) == WriteFile(f, dailyPath(d), NewNote(f, d))

\* the file tree after ensureDailyNote(d)
ensureDailyNote(f, d) ==
    IF Exists(f, dailyPath(d)) THEN f
    ELSE WriteFile(f, dailyPath(d), NewNote(f, d))

----------------------------------------------------------------------------
(* daily.ts: appendToLog, appendToSection.  Indices are 0-based as in the   *)
(* source: lines[k] of the source is lines[k + 1] here.                    *)

\* variant: nothing is skipped, the line goes directly under the header
SkipNothing(lines, k, header) == k

\* the while loop that skips blank lines and HTML comments after the header
RECURSIVE SkipBlanks(_, _, _)
SkipBlanks(lines, k, header) ==
    IF k >= Len(lines) THEN k
    ELSE IF StartsWith(lines[k + 1], "## ") /\ ~StartsWith(lines[k + 1], header) THEN k
    ELSE IF StartsWith(lines[k + 1], "<!-- ") THEN SkipBlanks(lines, k + 1, header)
    ELSE IF Trim(lines[k + 1]) = "" THEN SkipBlanks(lines, k + 1, header)
    ELSE k

\* the for loop that finds the first line starting with the header
RECURSIVE FindHeader(_, _, _)
FindHeader(lines, i, header) ==
    IF i >= Len(lines) THEN -1
    ELSE IF StartsWith(lines[i + 1], header) THEN i
    ELSE FindHeader(lines, i + 1, header)

InsertIndex(lines, header) ==
    LET h == FindHeader(lines, 0, header) IN
    IF h = -1 THEN -1 ELSE SkipBlanks(lines, h + 1, header)

\* "- " + time + " -- " + entry (the source writes an em dash where this has "--")
LogEntry(time, entry) == "- " \o time \o " -- " \o entry

\* variant: without a Log header the entry is dropped, as appendToSection would
appendToLogOrDrop(f, entry, d, time) ==
    LET f1 == ensureDailyNote(f, d)
        lines == Split(f1[dailyPath(d)])
        insertIndex == InsertIndex(lines, "## Log")
    IN IF insertIndex = -1 THEN f1
       ELSE WriteFile(f1, dailyPath(d), Join(SpliceIn(lines, insertIndex, LogEntry(time, entry))))

\* the file tree after appendToLog(entry, d) at the wall-clock time
appendToLog(f, entry, d, time) ==
    LET f1 == ensureDailyNote(f, d)
        content == f1[dailyPath(d)]
        lines == Split(content)
        insertIndex == InsertIndex(lines, "## Log")
    IN IF insertIndex = -1
       THEN WriteFile(f1, dailyPath(d), content \o "\n" \o LogEntry(time, entry) \o "\n")
       ELSE WriteFile(f1, dailyPath(d), Join(SpliceIn(lines, insertIndex, LogEntry(time, entry))))

\* variant: without the header the content is appended at the end, as appendToLog would
appendToSectionOrEnd(f, section, content, d) ==
    LET f1 == ensureDailyNote(f, d)
        lines == Split(f1[dailyPath(d)])
        insertIndex == InsertIndex(lines, "## " \o section)
    IN IF insertIndex >= 0
       THEN WriteFile(f1, dailyPath(d), Join(SpliceIn(lines, insertIndex, content)))
       ELSE WriteFile(f1, dailyPath(d), f1[dailyPath(d)] \o "\n" \o content \o "\n")

\* the file tree after appendToSection(section, content, d)
appendToSection(f, section, content, d) ==
    LET f1 == ensureDailyNote(f, d)
        lines == Split(f1[dailyPath(d)])
        insertIndex == InsertIndex(lines, "## " \o section)
    IN IF insertIndex >= 0
       THEN WriteFile(f1, dailyPath(d), Join(SpliceIn(lines, insertIndex, content)))
       ELSE f1

----------------------------------------------------------------------------
(* daily.ts: getPriorities; index.ts: writePriorities *)

RECURSIVE ScanPriorities(_, _, _)
ScanPriorities(lines, i, inPriorities) ==
    IF i > Len(lines) THEN <<>>
    ELSE IF StartsWith(lines[i], "## Priorities") THEN ScanPriorities(lines, i + 1, TRUE)
    ELSE IF inPriorities /\ StartsWith(lines[i], "## ") THEN <<>>
    ELSE IF inPriorities
         THEN LET doneMatch == DoneMatch(lines[i])
                  todoMatch == TodoMatch(lines[i])
              IN (IF doneMatch.ok THEN <<[text |-> doneMatch.text, done |-> TRUE]>>
                  ELSE IF todoMatch.ok /\ Trim(todoMatch.text) # ""
                       THEN <<[text |-> todoMatch.text, done |-> FALSE]>>
                  ELSE <<>>)
                 \o ScanPriorities(lines, i + 1, inPriorities)
    ELSE ScanPriorities(lines, i + 1, inPriorities)

\* the items getPriorities reads from a document
PrioritiesOf(content) == ScanPriorities(Split(content), 1, FALSE)

\* getPriorities(d): readDailyNote ensures the note first
getPriorities(f, d) ==
    LET f1 == ensureDailyNote(f, d) IN
    [fs |-> f1, items |-> PrioritiesOf(f1[dailyPath(d)])]

\* the for loop of writePriorities: <<startIdx, endIdx>>
RECURSIVE FindPriorities(_, _, _)
FindPriorities(fileLines, i, startIdx) ==
    IF i >= Len(fileLines) THEN <<startIdx, -1>>
    ELSE IF StartsWith(fileLines[i + 1], "## Priorities") THEN FindPriorities(fileLines, i + 1, i + 1)
    ELSE IF startIdx >= 0 /\ StartsWith(fileLines[i + 1], "## ") THEN <<startIdx, i>>
    ELSE FindPriorities(fileLines, i + 1, startIdx)

\* variant: splice with a delete count of 0, the old section body stays
writePrioritiesKeep(f, lines, d) ==
    LET f1 == ensureDailyNote(f, d)
        fileLines == Split(f1[dailyPath(d)])
        startIdx == FindPriorities(fileLines, 0, -1)[1]
    IN IF startIdx >= 0
       THEN WriteFile(f1, dailyPath(d),
                Join(SubSeq(fileLines, 1, startIdx) \o lines \o <<"">>
                     \o SubSeq(fileLines, startIdx + 1, Len(fileLines))))
       ELSE f1

\* the file tree after writePriorities(lines) on day d
writePriorities(f, lines, d) ==
    LET f1 == ensureDailyNote(f, d)
        fileLines == Split(f1[dailyPath(d)])
        found == FindPriorities(fileLines, 0, -1)
        startIdx == found[1]
        endIdx == IF found[2] = -1 THEN Len(fileLines) ELSE found[2]
    IN IF startIdx >= 0
       THEN WriteFile(f1, dailyPath(d),
                Join(SubSeq(fileLines, 1, startIdx) \o lines \o <<"">>
                     \o SubSeq(fileLines, endIdx + 1, Len(fileLines))))
       ELSE f1

----------------------------------------------------------------------------
(* para.ts: slugify, detectProject *)

LowerAlpha == "abcdefghijklmnopqrstuvwxyz"
UpperAlpha == "ABCDEFGHIJKLMNOPQRSTUVWXYZ"
Numerals   == "0123456789"

CharsOf(s) == {Char(s, i) : i \in 1..Len(s)}

LowerOf == [c \in CharsOf(UpperAlpha) |-> Char(LowerAlpha, IndexOf(UpperAlpha, c))]

\* c.toLowerCase() for one character
LowerChar(c) == IF c \in DOMAIN LowerOf THEN LowerOf[c] ELSE c

SlugChars == CharsOf(LowerAlpha) \cup CharsOf(Numerals)

WordChars == CharsOf(LowerAlpha) \cup CharsOf(UpperAlpha) \cup CharsOf(Numerals) \cup {"_"}

\* [a-z0-9]
IsSlugChar(c) == c \in SlugChars

\* \w
IsWordChar(c) == c \in WordChars

\* title.toLowerCase().replace(/[^a-z0-9]+/g, "-"), computed on halves of the
\* title: two runs that meet at the cut collapse into one hyphen
RECURSIVE Hyphenate(_)
Hyphenate(s) ==
    IF Len(s) = 0 THEN ""
    ELSE IF Len(s) = 1 THEN (IF IsSlugChar(LowerChar(s)) THEN LowerChar(s) ELSE "-")
    ELSE LET h == Len(s) \div 2
             l == Hyphenate(SubSeq(s, 1, h))
             r == Hyphenate(SubSeq(s, h + 1, Len(s)))
         IN IF EndsWith(l, "-") /\ StartsWith(r, "-") THEN l \o SubSeq(r, 2, Len(r)) ELSE l \o r

\* s.replace(/^-|-$/g, "")
StripHyphens(s) ==
    LET a == IF StartsWith(s, "-") THEN 2 ELSE 1
        b == IF Len(s) >= a /\ Char(s, Len(s)) = "-" THEN Len(s) - 1 ELSE Len(s)
    IN SubSeq(s, a, b)

SlugMax == 60

\* variant: the slug is not cut
slugifyUncut(title) == StripHyphens(Hyphenate(title))

slugify(title) == SubSeq(StripHyphens(Hyphenate(title)), 1, Min(SlugMax, Len(StripHyphens(Hyphenate(title)))))

ProjectsDir == "1-projects/"
ResourcesDir == "3-resources/"
InboxDir == "0-inbox/"

\* the names (file name without ".md") of the documents directly in a directory
NotesIn(f, dir) ==
    {SubSeq(p, Len(dir) + 1, Len(p) - 3) :
        p \in {q \in DOMAIN f : StartsWith(q, dir) /\ EndsWith(q, ".md")}}

\* content.match(/^#\s+(.+)$/m)?.[1] ?? name
TitleOf(content, name) ==
    LET lines == Split(content)
        hits == {i \in 1..Len(lines) :
                    /\ StartsWith(lines[i], "#")
                    /\ SkipWs(lines[i], 2) > 2
                    /\ SkipWs(lines[i], 2) <= Len(lines[i])}
    IN IF hits = {} THEN name
       ELSE SubSeq(lines[MinOf(hits)], SkipWs(lines[MinOf(hits)], 2), Len(lines[MinOf(hits)]))

\* the project notes that detectProject's find() accepts for a directory name
ProjectMatches(f, dirName) ==
    {n \in NotesIn(f, ProjectsDir) :
        n = dirName \/ slugify(TitleOf(f[ProjectsDir \o n \o ".md"], n)) = slugify(dirName)}

Undefined == "<undefined>"

\* detectProject(cwd) for a working directory whose basename is dirName.  The
\* model holds at most one project note, so find() has no order to choose by.
detectProject(f, dirName) ==
    IF ProjectMatches(f, dirName) = {} THEN Undefined
    ELSE CHOOSE n \in ProjectMatches(f, dirName) : TRUE

----------------------------------------------------------------------------
(* extractor.ts: lightExtract.  An entry is [type, message] where message is *)
(* a sequence holding the message record [role, content] when there is one, *)
(* and content is a string or a list of content blocks.                    *)

StringContent(text) == [isString |-> TRUE, text |-> text, blocks |-> <<>>]
BlockContent(blocks) == [isString |-> FALSE, text |-> "", blocks |-> blocks]

RECURSIVE TextBlocks(_)
TextBlocks(blocks) ==
    IF blocks = <<>> THEN <<>>
    ELSE (IF Head(blocks).type = "text" THEN <<Head(blocks).text>> ELSE <<>>)
         \o TextBlocks(Tail(blocks))

extractText(content) ==
    IF content.isString THEN content.text ELSE Join(TextBlocks(content.blocks))

\* the keyword kw (lower case) occurs in s at index i, ignoring case
MatchAtCI(s, i, kw) ==
    /\ i >= 1
    /\ i + Len(kw) - 1 <= Len(s)
    /\ \A k \in 1..Len(kw) : LowerChar(Char(s, i + k - 1)) = Char(kw, k)

WordAt(s, p) == p >= 1 /\ p <= Len(s) /\ IsWordChar(Char(s, p))

\* \b between the characters p - 1 and p
BoundaryAt(s, p) == WordAt(s, p - 1) # WordAt(s, p)

\* /\b(kw)\b/i.test(s)
LitHit(s, kw) ==
    \E i \in 1..Len(s) : MatchAtCI(s, i, kw) /\ BoundaryAt(s, i) /\ BoundaryAt(s, i + Len(kw))

\* /\b(kw\s)\b/i.test(s)
WsHit(s, kw) ==
    \E i \in 1..Len(s) :
        /\ MatchAtCI(s, i, kw)
        /\ BoundaryAt(s, i)
        /\ i + Len(kw) <= Len(s)
        /\ Char(s, i + Len(kw)) \in Ws
        /\ BoundaryAt(s, i + Len(kw) + 1)

DecisionMarkers ==
    {"decided", "going with", "let's go with", "let's use", "let's do",
     "we'll use", "we'll go", "we will use", "we will go"}

SolutionMarkers ==
    {"fix", "fixed", "solved", "solve", "resolved", "resolve",
     "the issue was", "the problem was", "the error was", "workaround"}

LearningMarkers == {"turns out", "til", "learned", "discovered", "key insight", "key takeaway"}

\* important(ly)?:?\s and note:?\s
LearningWsMarkers == {"important", "importantly", "important:", "importantly:", "note", "note:"}

TodoMarkers == {"todo", "fixme", "need to", "should ", "should also ", "remember to", "don't forget"}

CommandTools ==
    {"npm ", "yarn ", "pnpm ", "brew ", "go ", "cargo ", "pip ", "terraform ",
     "aws ", "gcloud ", "kubectl ", "docker ", "git "}

DecisionMinLen == 15
SolutionMinLen == 15
LearningMinLen == 10
TodoMinLen == 10
LongMaxLen == 300
ShortMaxLen == 200
KeepMax == 5

\* variant: the lower limit of the decision test is included
IsDecisionFromMin(line) ==
    (\E kw \in DecisionMarkers : LitHit(line, kw))
    /\ Len(line) >= DecisionMinLen /\ Len(line) < LongMaxLen

IsDecision(line) ==
    (\E kw \in DecisionMarkers : LitHit(line, kw))
    /\ Len(line) > DecisionMinLen /\ Len(line) < LongMaxLen

IsSolution(line) ==
    (\E kw \in SolutionMarkers : LitHit(line, kw))
    /\ Len(line) > SolutionMinLen /\ Len(line) < LongMaxLen

IsLearning(line) ==
    ((\E kw \in LearningMarkers : LitHit(line, kw)) \/ (\E kw \in LearningWsMarkers : WsHit(line, kw)))
    /\ Len(line) > LearningMinLen /\ Len(line) < LongMaxLen

IsTodo(line) ==
    (\E kw \in TodoMarkers : LitHit(line, kw))
    /\ Len(line) > TodoMinLen /\ Len(line) < ShortMaxLen

\* the code-fence marker: three grave accents in the source, written with
\* tildes here
Fence == "~~~"

\* /^\$?\s*(npm |yarn |...)/.test(t)
CommandStart(t) ==
    LET a == IF StartsWith(t, "$") THEN 2 ELSE 1
        b == SkipWs(t, a)
    IN \E tool \in CommandTools : StartsWith(SubSeq(t, b, Len(t)), tool)

IsCommand(role, line) ==
    /\ role = "assistant"
    /\ ~StartsWith(Trim(line), Fence)
    /\ CommandStart(Trim(line))
    /\ Len(line) < ShortMaxLen

\* the lines of every message entry with text, each with its role
RECURSIVE RoleLines(_)
RoleLines(entries) ==
    IF entries = <<>> THEN <<>>
    ELSE LET e == Head(entries) IN
         (IF e.type # "message" \/ e.message = <<>> THEN <<>>
          ELSE LET text == extractText(e.message[1].content)
                   lines == Split(text)
               IN IF text = "" THEN <<>>
                  ELSE [i \in 1..Len(lines) |-> [role |-> e.message[1].role, line |-> lines[i]]])
         \o RoleLines(Tail(entries))

\* variant: repeated lines are kept
KeepRepeats(xs) == xs

\* [...new Set(xs)]
RECURSIVE Dedupe(_)
Dedupe(xs) ==
    IF xs = <<>> THEN <<>>
    ELSE LET r == Dedupe(SubSeq(xs, 1, Len(xs) - 1)) IN
         IF \E i \in 1..Len(r) : r[i] = xs[Len(xs)] THEN r ELSE Append(r, xs[Len(xs)])

\* xs.slice(0, n)
Slice(xs, n) == SubSeq(xs, 1, Min(n, Len(xs)))

\* the test that guards result.<kind>.push
Passes(kind, x) ==
    CASE kind = "decisions" -> IsDecision(x.line)
      [] kind = "solutions" -> IsSolution(x.line)
      [] kind = "learnings" -> IsLearning(x.line)
      [] kind = "todos"     -> IsTodo(x.line)
      [] kind = "commands"  -> IsCommand(x.role, x.line)

\* the trimmed lines pushed to result.<kind>, in encounter order
Pushed(rl, kind) ==
    LET hits == SelectSeq(rl, LAMBDA x : Passes(kind, x)) IN [i \in 1..Len(hits) |-> Trim(hits[i].line)]

lightExtract(f, entries, dirName) ==
    LET rl == RoleLines(entries) IN
    [decisions |-> Slice(Dedupe(Pushed(rl, "decisions")), KeepMax),
     solutions |-> Slice(Dedupe(Pushed(rl, "solutions")), KeepMax),
     learnings |-> Slice(Dedupe(Pushed(rl, "learnings")), KeepMax),
     todos     |-> Slice(Dedupe(Pushed(rl, "todos")), KeepMax),
     commands  |-> Slice(Dedupe(Pushed(rl, "commands")), KeepMax),
     projectContext |-> detectProject(f, dirName)]

----------------------------------------------------------------------------
(* extractor.ts: writeToDaily *)

\* variant: a bullet the note already holds is not written again
RECURSIVE AppendNewBullets(_, _, _, _)
AppendNewBullets(f, section, xs, d) ==
    IF xs = <<>> THEN f
    ELSE LET f1 == ensureDailyNote(f, d)
             lines == Split(f1[dailyPath(d)])
         IN AppendNewBullets(
                IF \E i \in 1..Len(lines) : lines[i] = "- " \o Head(xs) THEN f1
                ELSE appendToSection(f1, section, "- " \o Head(xs), d),
                section, Tail(xs), d)

\* appendToSection(section, "- " + x) for every x of xs, in order
RECURSIVE AppendBullets(_, _, _, _)
AppendBullets(f, section, xs, d) ==
    IF xs = <<>> THEN f
    ELSE AppendBullets(appendToSection(f, section, "- " \o Head(xs), d), section, Tail(xs), d)

CountItem(n, what) == IF n > 0 THEN <<ToString(n) \o " " \o what>> ELSE <<>>

\* variant: the project prefix is written only together with the counts
SummaryPartsWithCounts(knowledge) ==
    LET items == CountItem(Len(knowledge.decisions), "decision(s)")
                 \o CountItem(Len(knowledge.solutions), "solution(s)")
                 \o CountItem(Len(knowledge.learnings), "learning(s)")
    IN IF Len(items) = 0 THEN <<>>
       ELSE (IF knowledge.projectContext # Undefined /\ knowledge.projectContext # ""
             THEN <<"Working on **" \o knowledge.projectContext \o "**">> ELSE <<>>)
            \o <<JoinWith(items, ", ")>>

\* the parts of the Log summary line
SummaryParts(knowledge) ==
    LET items == CountItem(Len(knowledge.decisions), "decision(s)")
                 \o CountItem(Len(knowledge.solutions), "solution(s)")
                 \o CountItem(Len(knowledge.learnings), "learning(s)")
    IN (IF knowledge.projectContext # Undefined /\ knowledge.projectContext # ""
        THEN <<"Working on **" \o knowledge.projectContext \o "**">> ELSE <<>>)
       \o (IF Len(items) > 0 THEN <<JoinWith(items, ", ")>> ELSE <<>>)

\* the file tree after writeToDaily(knowledge) on day d at the wall-clock time
writeToDaily(f, knowledge, d, time) ==
    LET parts == SummaryParts(knowledge)
        f1 == IF Len(parts) > 0 THEN appendToLog(f, JoinWith(parts, ". "), d, time) ELSE f
        f2 == AppendBullets(f1, "Decisions", knowledge.decisions, d)
    IN AppendBullets(f2, "Learned", knowledge.learnings, d)

----------------------------------------------------------------------------
(* extractor.ts: parseDeepExtraction.  A JSON value is [t, v]: t is its     *)
(* type, v the fields of an object (a function from field name to value),  *)
(* the items of an array, or the text of a string.                         *)

JUndef == [t |-> "undefined", v |-> <<>>]
JNull  == [t |-> "null", v |-> <<>>]
JStr(x) == [t |-> "str", v |-> x]
JArr(xs) == [t |-> "arr", v |-> xs]
JNum(n) == [t |-> "num", v |-> n]
JObj(fields) == [t |-> "obj", v |-> fields]

\* the JSON texts the completion provider returns in this model, with the
\* values JSON.parse decodes them to
JsonFull ==
    "{\"summary\":\"s\",\"decisions\":[\"d1\",\"d2\"],\"solutions\":[\"s1\"],\"learnings\":[\"l1\"],"
    \o "\"todos\":[],\"commands\":[],\"projectNotes\":\"pn\",\"resourceTopics\":[\"Topic A\"]}"
JsonQuiet ==
    "{\"summary\":\"s\",\"decisions\":[],\"solutions\":[],\"learnings\":[],"
    \o "\"todos\":[],\"commands\":[],\"projectNotes\":\"\",\"resourceTopics\":[]}"
JsonSummaryOnly == "{\"summary\":\"s\"}"
JsonNoLearnings == "{\"summary\":\"s\",\"decisions\":[\"d1\"]}"
JsonNoTodos ==
    "{\"summary\":\"s\",\"decisions\":[],\"solutions\":[\"s1\"],\"learnings\":[],"
    \o "\"commands\":[],\"projectNotes\":\"pn\",\"resourceTopics\":[\"Topic A\"]}"
JsonEmptyObject == "{}"
JsonArray == "[]"
JsonNumber == "42"
JsonZero == "0"
JsonString == "\"hi\""
JsonNull == "null"

Fields(summary, decisions, solutions, learnings, todos, commands, projectNotes, resourceTopics) ==
    [summary |-> JStr(summary), decisions |-> JArr(decisions), solutions |-> JArr(solutions),
     learnings |-> JArr(learnings), todos |-> JArr(todos), commands |-> JArr(commands),
     projectNotes |-> JStr(projectNotes), resourceTopics |-> JArr(resourceTopics)]

JsonValueOf ==
    (JsonFull :> JObj(Fields("s", <<"d1", "d2">>, <<"s1">>, <<"l1">>, <<>>, <<>>, "pn", <<"Topic A">>)))
    @@ (JsonQuiet :> JObj(Fields("s", <<>>, <<>>, <<>>, <<>>, <<>>, "", <<>>)))
    @@ (JsonSummaryOnly :> JObj([summary |-> JStr("s")]))
    @@ (JsonNoLearnings :> JObj([summary |-> JStr("s"), decisions |-> JArr(<<"d1">>)]))
    @@ (JsonNoTodos :> JObj([summary |-> JStr("s"), decisions |-> JArr(<<>>), solutions |-> JArr(<<"s1">>),
                             learnings |-> JArr(<<>>), commands |-> JArr(<<>>),
                             projectNotes |-> JStr("pn"), resourceTopics |-> JArr(<<"Topic A">>)]))
    @@ (JsonEmptyObject :> JObj(<<>>))
    @@ (JsonArray :> JArr(<<>>))
    @@ (JsonNumber :> JNum(42))
    @@ (JsonZero :> JNum(0))
    @@ (JsonString :> JStr("hi"))
    @@ (JsonNull :> JNull)

JsonWs == {" ", "\t", "\n", "\r"}

\* the text without the white space JSON allows around a value
JsonTrim(s) ==
    LET solid == {i \in 1..Len(s) : Char(s, i) \notin JsonWs}
    IN IF solid = {} THEN "" ELSE SubSeq(s, MinOf(solid), MaxOf(solid))

\* JSON.parse(s): the value, or a SyntaxError.  Every text outside the table
\* above that the model hands to JSON.parse is prose, empty, or still holds a
\* fence marker, none of which is JSON.
JsonParse(s) ==
    IF JsonTrim(s) \in DOMAIN JsonValueOf
    THEN [ok |-> TRUE, value |-> JsonValueOf[JsonTrim(s)]]
    ELSE [ok |-> FALSE, value |-> JUndef]

AtLineStart(s, i) == i = 1 \/ Char(s, i - 1) = "\n"
AtLineEnd(s, i) == i = Len(s) + 1 \/ Char(s, i) = "\n"

\* response.replace(/^~~~json?\n?/m, ""): the first fence marker at a line
\* start that is followed by "jso", with an "n" and a line break if present
StripOpeningFence(s) ==
    LET open == Fence \o "jso"
        hits == {i \in 1..Len(s) : AtLineStart(s, i) /\ StartsWith(SubSeq(s, i, Len(s)), open)}
    IN IF hits = {} THEN s
       ELSE LET i == MinOf(hits)
                a == i + Len(open)
                b == IF Char(s, a) = "n" THEN a + 1 ELSE a
                c == IF Char(s, b) = "\n" THEN b + 1 ELSE b
            IN SubSeq(s, 1, i - 1) \o SubSeq(s, c, Len(s))

\* s.replace(/\n?~~~$/m, ""): the first fence marker that ends a line, with
\* the line break before it if there is one
StripClosingFence(s) ==
    LET bare(i) == StartsWith(SubSeq(s, i, Len(s)), Fence) /\ AtLineEnd(s, i + Len(Fence))
        hits == {i \in 1..Len(s) : bare(i) \/ (Char(s, i) = "\n" /\ bare(i + 1))}
    IN IF hits = {} THEN s
       ELSE LET i == MinOf(hits)
                n == IF Char(s, i) = "\n" THEN Len(Fence) + 1 ELSE Len(Fence)
            IN SubSeq(s, 1, i - 1) \o SubSeq(s, i + n, Len(s))

\* parseDeepExtraction(response): whatever JSON.parse returns, or null when
\* it throws
parseDeepExtraction(response) ==
    LET parsed == JsonParse(StripClosingFence(StripOpeningFence(response)))
    IN IF parsed.ok THEN parsed.value ELSE JNull

----------------------------------------------------------------------------
(* extractor.ts: writeDeepExtraction.  The result is the file tree together *)
(* with whether a TypeError left the function at that point.               *)

\* extraction.name
Get(x, name) == IF x.t = "obj" /\ name \in DOMAIN x.v THEN x.v[name] ELSE JUndef

\* if (x)
Truthy(x) ==
    CASE x.t \in {"undefined", "null"} -> FALSE
      [] x.t = "str" -> x.v # ""
      [] x.t = "num" -> x.v # 0
      [] OTHER -> TRUE

\* for (const item of x) throws unless x is an array or a string
Iterable(x) == x.t \in {"arr", "str"}

ItemsOf(x) == IF x.t = "arr" THEN x.v ELSE [i \in 1..Len(x.v) |-> Char(x.v, i)]

\* what a template literal prints for x
Show(x) ==
    CASE x.t = "str" -> x.v
      [] x.t = "arr" -> JoinWith(x.v, ",")
      [] x.t = "num" -> ToString(x.v)
      [] x.t = "null" -> "null"
      [] OTHER -> "undefined"

Running(f) == [fs |-> f, thrown |-> FALSE]
Thrown(f) == [fs |-> f, thrown |-> TRUE]

\* new Date().toISOString().split("T")[0], taken to be the local calendar day
isoDate(d) == formatDate(d)

\* the "HH:MM" of a wall-clock time "HH:MM:SS"
HourMinute(time) == SubSeq(time, 1, 5)

\* the project document, when it exists and has a Progress section
WriteProjectNote(f, project, projectNotes, d) ==
    LET projectPath == ProjectsDir \o slugify(project) \o ".md" IN
    IF ~Exists(f, projectPath) \/ ~Includes(f[projectPath], "## Progress") THEN f
    ELSE LET lines == Split(f[projectPath])
             idx == FindHeader(lines, 0, "## Progress")
             blanks == {k \in (idx + 1)..Len(lines) :
                           \A j \in (idx + 1)..k : j < Len(lines) /\ Trim(lines[j + 1]) = ""}
             insertIdx == IF blanks = {} THEN idx + 1 ELSE MaxOf(blanks) + 1
         IN IF idx < 0 THEN f
            ELSE WriteFile(f, projectPath,
                     Join(SpliceIn(lines, insertIdx, "- " \o isoDate(d) \o ": " \o projectNotes)))

ResourceStub(topic, d) ==
    "---\ntitle: " \o topic \o "\ncreated: " \o isoDate(d) \o "\ntags: []\n---\n# " \o topic
    \o "\n\n## Summary\n*Auto-created from conversation. Needs expansion.*\n\n## Key Points\n\n## Related\n"

\* variant: a stub is written whether or not the document exists
RECURSIVE WriteResourceStubsAlways(_, _, _)
WriteResourceStubsAlways(f, topics, d) ==
    IF topics = <<>> THEN f
    ELSE WriteResourceStubsAlways(
             WriteFile(f, ResourcesDir \o slugify(Head(topics)) \o ".md", ResourceStub(Head(topics), d)),
             Tail(topics), d)

RECURSIVE WriteResourceStubs(_, _, _)
WriteResourceStubs(f, topics, d) ==
    IF topics = <<>> THEN f
    ELSE LET resourcePath == ResourcesDir \o slugify(Head(topics)) \o ".md" IN
         WriteResourceStubs(
             IF Exists(f, resourcePath) THEN f
             ELSE WriteFile(f, resourcePath, ResourceStub(Head(topics), d)),
             Tail(topics), d)

Labelled(label, xs, close) == [i \in 1..Len(xs) |-> label \o xs[i] \o close]

\* time.replace(/:/g, "")
InboxPath(d, time) == InboxDir \o "session-" \o isoDate(d) \o "-" \o ReplaceAll(time, ":", "") \o ".md"

\* the command bullet wraps the command in grave accents, written "'" here
InboxItems(solutions, commands, todos) ==
    Labelled("- **Solution:** ", solutions, "")
    \o Labelled("- **Command:** '", commands, "'")
    \o Labelled("- **TODO:** ", todos, "")

WriteInbox(f, project, items, d, time) ==
    IF Len(items) = 0 THEN f
    ELSE WriteFile(f, InboxPath(d, time),
             "---\ncaptured: " \o isoDate(d) \o "\nproject: " \o project
             \o "\n---\n# Session Capture: " \o project \o "\n\n" \o Join(items) \o "\n")

\* detectProject(cwd) ?? basename(cwd)
ProjectOf(found, dirName) == IF found = Undefined THEN dirName ELSE found

\* a for...of loop over items that appends each as a bullet to a section;
\* r is the result so far
BulletLoop(r, items, section, d) ==
    IF r.thrown THEN r
    ELSE IF ~Iterable(items) THEN Thrown(r.fs)
    ELSE Running(AppendBullets(r.fs, section, ItemsOf(items), d))

\* if (extraction.projectNotes) { ... }
ProjectStep(r, project, projectNotes, d) ==
    IF r.thrown \/ ~Truthy(projectNotes) THEN r
    ELSE Running(WriteProjectNote(r.fs, project, Show(projectNotes), d))

\* for (const topic of extraction.resourceTopics) { ... }
ResourceLoop(r, resourceTopics, d) ==
    IF r.thrown THEN r
    ELSE IF ~Iterable(resourceTopics) THEN Thrown(r.fs)
    ELSE Running(WriteResourceStubs(r.fs, ItemsOf(resourceTopics), d))

\* the three loops that collect the inbox items, and the inbox write
InboxStep(r, project, solutions, commands, todos, d, time) ==
    IF r.thrown THEN r
    ELSE IF ~Iterable(solutions) \/ ~Iterable(commands) \/ ~Iterable(todos) THEN Thrown(r.fs)
    ELSE Running(WriteInbox(r.fs, project,
             InboxItems(ItemsOf(solutions), ItemsOf(commands), ItemsOf(todos)), d, time))

\* writeDeepExtraction(extraction, cwd) on day d at wall-clock time "HH:MM:SS"
writeDeepExtraction(f, extraction, dirName, d, time) ==
    InboxStep(
        ResourceLoop(
            ProjectStep(
                BulletLoop(
                    BulletLoop(
                        Running(appendToLog(f, "Session summary: " \o Show(Get(extraction, "summary")),
                                            d, HourMinute(time))),
                        Get(extraction, "decisions"), "Decisions", d),
                    Get(extraction, "learnings"), "Learned", d),
                ProjectOf(detectProject(f, dirName), dirName), Get(extraction, "projectNotes"), d),
            Get(extraction, "resourceTopics"), d),
        ProjectOf(detectProject(f, dirName), dirName),
        Get(extraction, "solutions"), Get(extraction, "commands"), Get(extraction, "todos"), d, time)

----------------------------------------------------------------------------
(* index.ts: the context handler *)

BrainContext == "second-brain-context"

\* messages.splice(i, 1) with a 1-based index i
RemoveAt(messages, i) == SubSeq(messages, 1, i - 1) \o SubSeq(messages, i + 1, Len(messages))

\* variant: the loop runs from the front, the first brain message is kept
RECURSIVE PruneForward(_, _, _)
PruneForward(messages, i, lastBrainIdx) ==
    IF i > Len(messages) THEN messages
    ELSE IF messages[i].customType = BrainContext
         THEN IF lastBrainIdx = -1 THEN PruneForward(messages, i + 1, i)
              ELSE PruneForward(RemoveAt(messages, i), i, lastBrainIdx)
    ELSE PruneForward(messages, i + 1, lastBrainIdx)

pruneContextKeepFirst(messages) == PruneForward(messages, 1, -1)

\* the for loop from the last message to the first: messages[i] here is
\* messages[i - 1] of the source
RECURSIVE PruneBackward(_, _, _)
PruneBackward(messages, i, lastBrainIdx) ==
    IF i < 1 THEN messages
    ELSE IF messages[i].customType = BrainContext
         THEN IF lastBrainIdx = -1 THEN PruneBackward(messages, i - 1, i)
              ELSE PruneBackward(RemoveAt(messages, i), i - 1, lastBrainIdx - 1)
    ELSE PruneBackward(messages, i - 1, lastBrainIdx)

\* the messages the context handler returns
pruneContext(messages) == PruneBackward(messages, Len(messages), -1)

----------------------------------------------------------------------------
(* Inputs: the documents a user keeps and the arguments callers pass *)

\* templates/daily.md as the setup script installs it
SetupTemplate ==
    "---\ndate: {{DATE}}\n---\n# {{DAY_NAME}}, {{FULL_DATE}}\n\n## Priorities\n- [ ] \n\n"
    \o "## Log\n<!-- Auto-populated by second-brain extension -->\n\n## Notes\n\n"
    \o "## Decisions\n<!-- Key decisions made today -->\n\n## Learned\n<!-- Things learned today -->\n"

\* a template a user wrote: no placeholder line, no Log section
PlainTemplate == "# {{DATE}}\n\n## Priorities\n\n## Notes\n\n## Decisions\n- keep\n"

Templates == {SetupTemplate, PlainTemplate}

\* daily notes as a user left them
TidyNote ==
    "# Sunday\n\n## Priorities\n- [ ] a\n- [x] b\n- [ ] \n\n## Log\n\n## Notes\n\n## Decisions\n\n## Learned\n"
BusyNote ==
    "# Sunday\n\n## Priorities\n- [ ] pay $$5\n- [X] b\n- [ ] c *(rolled over)*\n- [ ]  \n\n"
    \o "## Log\n<!-- auto -->\n- 08:00 -- up\n## Decisions\n- [ ] not a priority\n## Learned\n \n- old\n"
BareNote == "# Sunday\n\n## Priorities\n- [x] b\n- [x] \nplain\n- [x]  \n- [ ] a\n"
\* a note with two Priorities headers and a Notes header with a suffix
StaleNote ==
    "# Monday\n\n## Priorities\n- [ ] m\n## Priorities (later)\n- [ ] z\n\n"
    \o "## Notes (old)\n<!-- n -->\n\n## Decisions\n"
\* a note without a Priorities header
LooseNote == "# Monday\n\n## Notes\n- x\n"

Sections == {"Notes", "Decisions"}
SectionLines == {"- n1"}
LogEntries == {"e1"}
Times == {"09:05:07"}
PriorityLists ==
    {<<>>, <<"- [ ] p", "- [x] q">>, <<"- [X] q", "- [ ] p p">>, <<"- [ ]  r">>, <<"- [x]  ">>}

\* session entries as agent_end receives them
Msg(role, text) ==
    [type |-> "message", message |-> <<[role |-> role, content |-> StringContent(text)]>>]
Blocks(role, blocks) ==
    [type |-> "message", message |-> <<[role |-> role, content |-> BlockContent(blocks)]>>]
Other(type) == [type |-> type, message |-> <<>>]

EntryLists ==
    {<<>>,
     <<Msg("user", "We decided to use Postgres\nTurns out the cache was stale")>>,
     <<Msg("assistant", "We decided to use Postgres\n  Let's go with plan B today"),
       Other("compaction"),
       Msg("user", "I learned that tabs matter\nWe decided to use Postgres")>>,
     <<Msg("user", "Remember to water the plants")>>,
     <<Blocks("assistant", <<[type |-> "text", text |-> "Fixed the flaky test by pinning"],
                             [type |-> "image", text |-> ""]>>)>>}

DirNames == {"app"}

\* n letters
RECURSIVE Filler(_)
Filler(n) ==
    IF n <= 0 THEN "" ELSE IF n = 1 THEN "x"
    ELSE Filler(n \div 2) \o Filler(n - (n \div 2))

\* a line of exactly len characters that opens with the given words
LineOf(opening, len) == opening \o Filler(len - Len(opening))

\* the line lengths next to the limits of the length tests
LengthsNear == {DecisionMinLen - 1, DecisionMinLen, DecisionMinLen + 1,
                LearningMinLen - 1, LearningMinLen, LearningMinLen + 1,
                ShortMaxLen - 1, ShortMaxLen, LongMaxLen - 1, LongMaxLen}

\* words that open a line with one marker of one category
Openings == {"decided ", "fixed ", "TIL ", "TODO ", "git "}

\* a turn whose lines repeat and exceed the cap of every category
ManyLines ==
    "We decided on plan A\nWe decided on plan B\n  We decided on plan A\nWe decided on plan C\n"
    \o "We decided on plan B  \nWe decided on plan D\nWe decided on plan E\nWe decided on plan F\n"
    \o "We decided on plan G"
ManyKinds ==
    "fixed and learned 1, TODO\nfixed and learned 2, TODO\nfixed and learned 1, TODO\n"
    \o "fixed and learned 3, TODO\nfixed and learned 4, TODO\nfixed and learned 5, TODO\n"
    \o "fixed and learned 6, TODO\ngit status\ngit status\nnpm test\nnpm run a\nnpm run b\n"
    \o "$ git log\n$  yarn add x\ncargo build"

\* the session entries lightExtract is applied to
ExtractInputs ==
    EntryLists
    \cup {<<Msg(role, LineOf(opening, len))>> :
              role \in {"user", "assistant"}, opening \in Openings, len \in LengthsNear}
    \cup {<<Msg(role, text)>> : role \in {"user", "assistant"}, text \in {ManyLines, ManyKinds}}
    \cup {<<Msg("user", ManyLines), Msg("assistant", ManyLines)>>}

\* what the handler sees of the conversation being compacted
MinMessages == 3
MinTextLen == 200
MessageCounts == {MinMessages - 1, MinMessages}
TextLengths == {MinTextLen - 1, MinTextLen}
KeyResults == {"key", "none", "error"}

\* replies of the completion provider: a body in a wrapper
Prose == "Sorry, I cannot help."
Bodies ==
    {"", Prose, JsonFull, JsonQuiet, JsonSummaryOnly, JsonNoLearnings, JsonNoTodos,
     JsonEmptyObject, JsonArray, JsonNumber, JsonZero, JsonString, JsonNull}
Wrappers == {"plain", "json", "jsonNl", "jso", "fence", "tight", "prose", "padded"}

Wrap(w, body) ==
    CASE w = "json"   -> Fence \o "json\n" \o body \o "\n" \o Fence
      [] w = "jsonNl" -> Fence \o "json\n" \o body \o "\n" \o Fence \o "\n"
      [] w = "jso"    -> Fence \o "jso\n" \o body \o "\n" \o Fence
      [] w = "fence"  -> Fence \o "\n" \o body \o "\n" \o Fence
      [] w = "tight"  -> Fence \o "json" \o body \o Fence
      [] w = "prose"  -> "Here you go:\n" \o Fence \o "json\n" \o body \o "\n" \o Fence
      [] w = "padded" -> " " \o body \o "\n"
      [] OTHER        -> body

Replies == {Wrap(w, body) : w \in Wrappers, body \in Bodies}

\* the replies the compaction handler receives in this model
CompactReplies ==
    Bodies \cup {Wrap("json", body) : body \in {JsonFull, JsonSummaryOnly, JsonArray}}

Tree1(p, c) == WriteFile(NoFiles, p, c)
Tree2(p, c, q, e) == WriteFile(WriteFile(NoFiles, p, c), q, e)

\* the file trees the program may start from: with or without a template,
\* with or without notes for the first two days
StartTrees ==
    {NoFiles,
     Tree1(TemplatePath, SetupTemplate),
     Tree1(dailyPath(1), TidyNote),
     Tree1(dailyPath(1), BusyNote),
     Tree2(TemplatePath, PlainTemplate, dailyPath(1), BareNote),
     Tree2(TemplatePath, SetupTemplate, dailyPath(1), TidyNote),
     WriteFile(Tree2(TemplatePath, SetupTemplate, dailyPath(1), BusyNote), dailyPath(2), StaleNote),
     Tree2(TemplatePath, PlainTemplate, dailyPath(2), LooseNote)}

\* the trees and turns of a session whose handlers interleave: no note for
\* today, a note with every section, a note without Log and Decisions
InterleaveTrees ==
    {NoFiles,
     Tree1(dailyPath(2), TidyNote),
     Tree2(TemplatePath, PlainTemplate, dailyPath(2), LooseNote)}
InterleaveEntries ==
    {<<Msg("user", "We decided to use Postgres\nTurns out the cache was stale")>>,
     <<Msg("user", "Remember to water the plants")>>}

\* message lists of a context event: every message carries its position in
\* the list as its content
CustomTypes == {BrainContext, "other-extension", ""}
MessageLists ==
    UNION {[1..n -> CustomTypes] : n \in 0..MaxMessages}
Numbered(types) == [i \in 1..Len(types) |-> [customType |-> types[i], content |-> i]]

\* project and reference documents as a user keeps them
ProjectNote == "# App\n\n## Progress\n\n- old\n\n## Notes\n"
ProjectNoteNoProgress == "# App\n\n### Progress\n- old\n"
ProjectNoteTitled == "# App\n\n## Progress report\n\n\n"
ReferenceNote == "# Topic A\nmine\n"

\* the file trees writeDeepExtraction may find
DeepTrees ==
    {NoFiles,
     Tree1(ProjectsDir \o "app.md", ProjectNote),
     Tree1(ProjectsDir \o "App.md", ProjectNote),
     Tree2(ProjectsDir \o "app.md", ProjectNoteNoProgress, dailyPath(2), TidyNote),
     Tree2(ProjectsDir \o "web-app.md", ProjectNoteTitled, ResourcesDir \o "topic-a.md", ReferenceNote)}

\* extractions with all eight fields
DeepRecords ==
    {JObj(Fields("s", <<"d1">>, <<"s1">>, <<>>, <<>>, <<>>, "pn", <<"Topic A", "topic a!">>)),
     JObj(Fields("s", <<>>, <<>>, <<>>, <<>>, <<>>, "", <<>>)),
     JObj(Fields("t", <<>>, <<>>, <<"l1">>, <<"t1">>, <<"c1">>, "pn2", <<"Topic B">>)),
     JObj(Fields("s", <<>>, <<>>, <<>>, <<>>, <<"c1">>, "", <<"Topic A">>))}

\* wall-clock times one second apart
DeepTimes == {"09:05:07", "09:05:08"}

\* knowledge records as a caller of writeToDaily may pass them
Knowledge(decisions, solutions, learnings, todos, commands, projectContext) ==
    [decisions |-> decisions, solutions |-> solutions, learnings |-> learnings, todos |-> todos,
     commands |-> commands, projectContext |-> projectContext]

LightRecords ==
    {Knowledge(<<>>, <<>>, <<>>, <<>>, <<>>, Undefined),
     Knowledge(<<>>, <<>>, <<>>, <<>>, <<>>, "app"),
     Knowledge(<<"d1">>, <<>>, <<>>, <<>>, <<>>, Undefined),
     Knowledge(<<>>, <<"s1">>, <<>>, <<>>, <<>>, "app"),
     Knowledge(<<>>, <<>>, <<>>, <<"t1">>, <<"c1">>, Undefined),
     Knowledge(<<"d1">>, <<>>, <<"l1", "l2">>, <<>>, <<>>, "app")}

\* titles: an opening, a middle and an ending
TitleHeads == {"", "--", "Terraform S3 ", "  My "}
TitleMiddles == {"bucket policy", "A_b  C", Filler(SlugMax - 2), Filler(SlugMax - 1), Filler(SlugMax)}
TitleTails == {"", "!!", " b", "-", " -- z9"}
Titles == {h \o m \o t : h \in TitleHeads, m \in TitleMiddles, t \in TitleTails}
              \cup {"", "!!", "Q"}

\* calls of the second_brain_daily tool
ToolActions == {"read", "append_log", "append_notes"}
ToolContents == {"", "c1"}

\* a template with two placeholder lines, the first one under Priorities
TwinTemplate ==
    "# {{DATE}}\n\n## Priorities\n- [ ] \n\n## Later\n- [ ] \n\n## Log\n\n## Notes\n"

\* yesterday's notes with items a user edited by hand: only the marker left,
\* a trailing blank, a shell quotation
MarkerNote ==
    "# Sunday\n\n## Priorities\n- [ ] *(rolled over)*\n- [ ] k \n- [ ] \n\n## Log\n"
DollarNote ==
    "# Sunday\n\n## Priorities\n- [ ] run echo $'hi'\n- [ ] w\n- [ ] \n\n## Log\n- 08:00 -- up\n"

\* the template installed when a day's note is created ("" for none)
RolloverTemplates == {"", SetupTemplate, PlainTemplate, TwinTemplate}
YesterdayNotes == {TidyNote, BusyNote, BareNote, StaleNote, LooseNote, MarkerNote, DollarNote}

WithTemplate(t, f) == IF t = "" THEN f ELSE WriteFile(f, TemplatePath, t)

\* the file trees a day may start from: a note for the day before, a note
\* for the day before that only, or no note at all
RolloverTrees ==
    {WithTemplate(t, Tree1(dailyPath(1), n)) : t \in RolloverTemplates, n \in YesterdayNotes}
    \cup {WithTemplate(t, Tree1(dailyPath(0), TidyNote)) : t \in RolloverTemplates}
    \cup {WithTemplate(t, NoFiles) : t \in RolloverTemplates}

----------------------------------------------------------------------------
(* State machine *)

NoKnowledge ==
    [decisions |-> <<>>, solutions |-> <<>>, learnings |-> <<>>, todos |-> <<>>,
     commands |-> <<>>, projectContext |-> Undefined]

Did(op, day, name, line, lines, pre) ==
    [op |-> op, day |-> day, name |-> name, line |-> line, lines |-> lines, pre |-> pre,
     items |-> <<>>, value |-> JUndef, outcome |-> "", input |-> <<>>, knowledge |-> NoKnowledge]

Nothing == Did("none", 0, "", "", <<>>, NoFiles)

Init ==
    /\ fs \in StartTrees
    /\ today = 2
    /\ reindexQueued = FALSE
    /\ pc = "idle"
    /\ last = Nothing
    /\ prev = Nothing
    /\ ops = 0
    /\ reply = ""

\* one more operation has run; none runs after session_shutdown
Step(op, bound) ==
    /\ ops < bound
    /\ pc # "ended"
    /\ ops' = ops + 1
    /\ prev' = last
    /\ last' = op

\* ensureDailyNote(d)
Ensure(d) ==
    /\ Step(Did("ensure", d, "", "", <<>>, fs), MaxOps)
    /\ fs' = ensureDailyNote(fs, d)
    /\ UNCHANGED <<today, reindexQueued, pc, reply>>

\* appendToSection(name, line, d)
AppendToSection(name, line, d) ==
    /\ Step(Did("appendToSection", d, name, line, <<>>, fs), MaxOps)
    /\ fs' = appendToSection(fs, name, line, d)
    /\ UNCHANGED <<today, reindexQueued, pc, reply>>

\* appendToLog(entry, d)
AppendToLog(entry, d, time) ==
    /\ Step(Did("appendToLog", d, "Log", LogEntry(HourMinute(time), entry), <<>>, fs), MaxOps)
    /\ fs' = appendToLog(fs, entry, d, HourMinute(time))
    /\ UNCHANGED <<today, reindexQueued, pc, reply>>

\* getPriorities(d)
GetPriorities(d) ==
    LET r == getPriorities(fs, d) IN
    /\ Step([Did("getPriorities", d, "", "", <<>>, fs) EXCEPT !.items = r.items], MaxOps)
    /\ fs' = r.fs
    /\ UNCHANGED <<today, reindexQueued, pc, reply>>

\* writePriorities(lines), as the /priorities command calls it
WritePriorities(lines) ==
    /\ Step(Did("writePriorities", today, "", "", lines, fs), MaxOps)
    /\ fs' = writePriorities(fs, lines, today)
    /\ reindexQueued' = TRUE
    /\ UNCHANGED <<today, pc, reply>>

\* the user installs, replaces or removes templates/daily.md
EditTemplate ==
    /\ Step(Did("editTemplate", 0, "", "", <<>>, fs), MaxOps)
    /\ \/ \E t \in Templates : fs' = WriteFile(fs, TemplatePath, t)
       \/ fs' = [q \in (DOMAIN fs) \ {TemplatePath} |-> fs[q]]
    /\ fs' # fs
    /\ UNCHANGED <<today, reindexQueued, pc, reply>>

\* midnight
DayPasses ==
    /\ Step(Did("dayPasses", today, "", "", <<>>, fs), MaxOps)
    /\ today < MaxDay
    /\ today' = today + 1
    /\ UNCHANGED <<fs, reindexQueued, pc, reply>>

EngineNext ==
    \/ \E d \in Days : Ensure(d)
    \/ \E name \in Sections, line \in SectionLines, d \in Days : AppendToSection(name, line, d)
    \/ \E entry \in LogEntries, d \in Days, time \in Times : AppendToLog(entry, d, time)
    \/ \E d \in Days : GetPriorities(d)
    \/ \E lines \in PriorityLists : WritePriorities(lines)
    \/ EditTemplate
    \/ DayPasses

\* the daily-note engine under its callers' operations
SpecEngine == Init /\ [][EngineNext]_vars

\* agent_end: light extraction of the turn's entries into today's note
AgentEnd(entries, dirName, time) ==
    LET knowledge == lightExtract(fs, entries, dirName)
        hasContent == /\ Len(entries) > 0
                      /\ \/ Len(knowledge.decisions) > 0
                         \/ Len(knowledge.solutions) > 0
                         \/ Len(knowledge.learnings) > 0
    IN
    /\ Step([Did("agentEnd", today, "", "", <<>>, fs) EXCEPT
                !.input = entries,
                !.knowledge = IF Len(entries) > 0 THEN knowledge ELSE NoKnowledge,
                !.outcome = IF hasContent THEN "written" ELSE "skipped"], MaxRuns)
    /\ fs' = IF hasContent THEN writeToDaily(fs, knowledge, today, HourMinute(time)) ELSE fs
    /\ reindexQueued' = (reindexQueued \/ hasContent)
    /\ UNCHANGED <<today, pc, reply>>

LightNext ==
    \E entries \in EntryLists, dirName \in DirNames, time \in Times : AgentEnd(entries, dirName, time)

\* the light extraction pipeline under repeated agent_end events
SpecLight == Init /\ [][LightNext]_vars

\* variant: the tree is read before the await and written after it
ReadAtStart(now, before) == before

\* the tree a writer works on: appendToLog and appendToSection read the note
\* in the same synchronous call that writes it, after every await
ReadAtWrite(now, before) == now

\* variant: no catch block, an exception of the writer reaches the host
SettledUncaught(thrown) == IF thrown THEN "propagated" ELSE "written"

\* how a handler ends when its body has run: try { ... } catch { }
Settled(thrown) == IF thrown THEN "thrown" ELSE "written"

\* session_before_compact, up to the request for the API key
CompactStart(nMessages, textLen, hasModel) ==
    LET go == nMessages >= MinMessages /\ textLen >= MinTextLen /\ hasModel IN
    /\ pc = "idle"
    /\ Step([Did("compactStart", today, "", "", <<>>, fs) EXCEPT
                !.input = <<nMessages, textLen, hasModel>>,
                !.outcome = IF go THEN "awaiting" ELSE "skipped"], MaxSteps)
    /\ pc' = IF go THEN "awaitKey" ELSE "idle"
    /\ UNCHANGED <<fs, today, reindexQueued, reply>>

\* getApiKey settles: a key, no key, or a rejection
CompactKey(key) ==
    /\ pc = "awaitKey"
    /\ Step([Did("compactKey", today, "", "", <<>>, fs) EXCEPT
                !.outcome = IF key = "key" THEN "awaiting" ELSE "skipped"], MaxSteps)
    /\ pc' = IF key = "key" THEN "awaitComplete" ELSE "idle"
    /\ UNCHANGED <<fs, today, reindexQueued, reply>>

\* complete() resolves with the reply text: parse it and write what it holds
CompactReply(response, dirName, time) ==
    LET extraction == parseDeepExtraction(response)
        written == writeDeepExtraction(ReadAtWrite(fs, last.pre), extraction, dirName, today, time)
    IN
    /\ pc = "awaitComplete"
    /\ Step([Did("compactReply", today, "", response, <<>>, fs) EXCEPT
                !.value = extraction,
                !.outcome = IF ~Truthy(extraction) THEN "skipped" ELSE Settled(written.thrown)],
            MaxSteps)
    /\ reply' = response
    /\ fs' = IF Truthy(extraction) THEN written.fs ELSE fs
    /\ reindexQueued' = (reindexQueued \/ (Truthy(extraction) /\ ~written.thrown))
    /\ pc' = "idle"
    /\ UNCHANGED today

\* complete() rejects: network failure, provider error or abort
CompactFail ==
    /\ pc = "awaitComplete"
    /\ Step([Did("compactFail", today, "", "", <<>>, fs) EXCEPT !.outcome = "failed"], MaxSteps)
    /\ pc' = "idle"
    /\ UNCHANGED <<fs, today, reindexQueued, reply>>

CompactNext ==
    \/ \E nMessages \in MessageCounts, textLen \in TextLengths, hasModel \in BOOLEAN :
           CompactStart(nMessages, textLen, hasModel)
    \/ \E key \in KeyResults : CompactKey(key)
    \/ \E response \in CompactReplies, dirName \in DirNames, time \in Times :
           CompactReply(response, dirName, time)
    \/ CompactFail

\* the deep extraction handler
SpecCompact == Init /\ [][CompactNext]_vars

\* writeDeepExtraction(extraction, cwd) at a wall-clock time
WriteDeep(extraction, dirName, time) ==
    /\ Step([Did("writeDeep", today, dirName, time, <<>>, fs) EXCEPT
                !.value = extraction,
                !.outcome = IF writeDeepExtraction(fs, extraction, dirName, today, time).thrown
                            THEN "thrown" ELSE "written"], MaxWrites)
    /\ fs' = writeDeepExtraction(fs, extraction, dirName, today, time).fs
    /\ UNCHANGED <<today, reindexQueued, pc, reply>>

DeepNext ==
    \E extraction \in DeepRecords, dirName \in DirNames, time \in DeepTimes :
        WriteDeep(extraction, dirName, time)

InitDeep ==
    /\ fs \in DeepTrees
    /\ today = 2
    /\ reindexQueued = FALSE
    /\ pc = "idle"
    /\ last = Nothing
    /\ prev = Nothing
    /\ ops = 0
    /\ reply = ""

\* writeDeepExtraction under repeated calls
SpecDeep == InitDeep /\ [][DeepNext]_vars

\* writeToDaily(knowledge) at a wall-clock time
WriteLight(knowledge, time) ==
    /\ Step([Did("writeLight", today, "", HourMinute(time), <<>>, fs) EXCEPT
                !.knowledge = knowledge], MaxWrites)
    /\ fs' = writeToDaily(fs, knowledge, today, HourMinute(time))
    /\ UNCHANGED <<today, reindexQueued, pc, reply>>

WriteLightNext == \E knowledge \in LightRecords, time \in Times : WriteLight(knowledge, time)

\* writeToDaily under repeated calls
SpecWriteLight == InitDeep /\ [][WriteLightNext]_vars

\* slugify applied to a title
Slugify(title) ==
    /\ last.op = "none"
    /\ last' = [Did("slugify", 0, "", title, <<>>, fs) EXCEPT !.value = JStr(slugify(title))]
    /\ UNCHANGED <<fs, today, reindexQueued, pc, prev, ops, reply>>

SlugifyNext == \E title \in Titles : Slugify(title)

\* slugify over the titles
SpecSlugify == Init /\ [][SlugifyNext]_vars

\* session_start: today's note is created when it is missing
SessionStart ==
    /\ last.op = "none"
    /\ Step(Did("sessionStart", today, "", "", <<>>, fs), MaxEvents)
    /\ fs' = ensureDailyNote(fs, today)
    /\ UNCHANGED <<today, reindexQueued, pc, reply>>

\* the section a tool action appends to
SectionOf(action) == IF action = "append_log" THEN "Log" ELSE "Notes"

\* second_brain_daily: read the note, or append to the Log or to a section
ToolDaily(action, content, time) ==
    LET appends == action # "read" /\ content # "" IN
    /\ Step([Did("toolDaily", today, action, content, <<>>, fs) EXCEPT
                !.outcome = IF appends THEN "appended" ELSE IF action = "read" THEN "read" ELSE "refused"],
            MaxEvents)
    /\ fs' = IF action = "read" THEN ensureDailyNote(fs, today)
             ELSE IF ~appends THEN fs
             ELSE IF action = "append_log" THEN appendToLog(fs, content, today, HourMinute(time))
             ELSE appendToSection(fs, SectionOf(action), "- " \o content, today)
    /\ reindexQueued' = (reindexQueued \/ appends)
    /\ UNCHANGED <<today, pc, reply>>

\* session_shutdown: the closing Log entry, then qmd update when a re-index
\* is queued
SessionShutdown(time) ==
    /\ Step([Did("shutdown", today, "", "", <<>>, fs) EXCEPT
                !.outcome = IF reindexQueued THEN "reindexed" ELSE "skipped"], MaxEvents)
    /\ fs' = appendToLog(fs, "Session ended.", today, HourMinute(time))
    /\ pc' = "ended"
    /\ UNCHANGED <<today, reindexQueued, reply>>

SessionNext ==
    \/ SessionStart
    \/ LightNext
    \/ \E action \in ToolActions, content \in ToolContents, time \in Times :
           ToolDaily(action, content, time)
    \/ \E time \in Times : SessionShutdown(time)

\* one session of the extension, from its first event to session_shutdown
SpecSession == Init /\ [][SessionNext]_vars

\* lightExtract applied to the entries of a turn
Extract(entries, dirName) ==
    /\ last.op = "none"
    /\ last' = [Did("extract", 0, "", "", <<>>, fs) EXCEPT
                    !.input = entries, !.knowledge = lightExtract(fs, entries, dirName)]
    /\ UNCHANGED <<fs, today, reindexQueued, pc, prev, ops, reply>>

ExtractNext == \E entries \in ExtractInputs, dirName \in DirNames : Extract(entries, dirName)

\* lightExtract over turns of every shape
SpecExtract == Init /\ [][ExtractNext]_vars

\* ensureDailyNote() for the clock's day
EnsureToday ==
    /\ Step(Did("ensure", today, "", "", <<>>, fs), MaxTurns)
    /\ fs' = ensureDailyNote(fs, today)
    /\ UNCHANGED <<today, reindexQueued, pc, reply>>

\* midnight between two note creations
Midnight ==
    /\ Step(Did("midnight", today, "", "", <<>>, fs), MaxTurns)
    /\ today < MaxDay
    /\ today' = today + 1
    /\ UNCHANGED <<fs, reindexQueued, pc, reply>>

RolloverNext == EnsureToday \/ Midnight

InitRollover ==
    /\ fs \in RolloverTrees
    /\ today = 2
    /\ reindexQueued = FALSE
    /\ pc = "idle"
    /\ last = Nothing
    /\ prev = Nothing
    /\ ops = 0
    /\ reply = ""

\* note creation and rollover over consecutive days
SpecRollover == InitRollover /\ [][RolloverNext]_vars

\* the operations that write daily notes, one after another
NotesNext ==
    \/ \E d \in Days : Ensure(d)
    \/ \E name \in Sections, line \in SectionLines, d \in Days : AppendToSection(name, line, d)
    \/ \E entry \in LogEntries, d \in Days, time \in Times : AppendToLog(entry, d, time)
    \/ \E lines \in PriorityLists : WritePriorities(lines)
    \/ WriteLightNext
    \/ DeepNext

\* daily notes under sequences of their writers
SpecNotes == Init /\ [][NotesNext]_vars

\* the two extraction handlers of a session
HandlersNext == LightNext \/ CompactNext

SpecHandlers == Init /\ [][HandlersNext]_vars

\* session_shutdown up to its first await: the closing Log entry.  What
\* follows (qmd update, git) writes no note, so other handlers may run next.
ShutdownLog(time) ==
    /\ Step([Did("shutdownLog", today, "Log", LogEntry(HourMinute(time), "Session ended."), <<>>, fs)
                EXCEPT !.outcome = "appended"], MaxEvents)
    /\ fs' = appendToLog(fs, "Session ended.", today, HourMinute(time))
    /\ UNCHANGED <<today, reindexQueued, pc, reply>>

\* the handlers and the tool of one process, interleaved at their awaits
InterleaveNext ==
    \/ \E entries \in InterleaveEntries, dirName \in DirNames, time \in Times :
           AgentEnd(entries, dirName, time)
    \/ CompactStart(MinMessages, MinTextLen, TRUE)
    \/ \E key \in {"key", "none"} : CompactKey(key)
    \/ \E response \in {JsonFull, JsonSummaryOnly, Prose}, dirName \in DirNames, time \in Times :
           CompactReply(response, dirName, time)
    \/ CompactFail
    \/ \E action \in ToolActions \ {"read"}, time \in Times : ToolDaily(action, "c1", time)
    \/ \E time \in Times : ShutdownLog(time)

InitInterleave ==
    /\ fs \in InterleaveTrees
    /\ today = 2
    /\ reindexQueued = FALSE
    /\ pc = "idle"
    /\ last = Nothing
    /\ prev = Nothing
    /\ ops = 0
    /\ reply = ""

SpecInterleave == InitInterleave /\ [][InterleaveNext]_vars

\* the context event with a list of messages
Context(types) ==
    /\ last.op = "none"
    /\ last' = [Did("context", 0, "", "", <<>>, fs) EXCEPT
                    !.input = Numbered(types), !.items = pruneContext(Numbered(types))]
    /\ UNCHANGED <<fs, today, reindexQueued, pc, prev, ops, reply>>

ContextNext == \E types \in MessageLists : Context(types)

\* the context handler over message lists
SpecContext == Init /\ [][ContextNext]_vars

\* parseDeepExtraction applied to a reply
ParseReply ==
    /\ last.op = "none"
    /\ last' = [Did("parse", 0, "", reply, <<>>, fs) EXCEPT !.value = parseDeepExtraction(reply)]
    /\ UNCHANGED <<fs, today, reindexQueued, pc, prev, ops, reply>>

InitParse ==
    /\ fs = NoFiles
    /\ today = 2
    /\ reindexQueued = FALSE
    /\ pc = "idle"
    /\ last = Nothing
    /\ prev = Nothing
    /\ ops = 0
    /\ reply \in Replies

\* parseDeepExtraction over the replies of the provider
SpecParse == InitParse /\ [][ParseReply]_vars

Next ==
    \/ EngineNext
    \/ SessionNext
    \/ CompactNext
    \/ DeepNext
    \/ WriteLightNext
    \/ SlugifyNext
    \/ ExtractNext
    \/ RolloverNext
    \/ NotesNext
    \/ HandlersNext
    \/ InterleaveNext
    \/ ContextNext
    \/ ParseReply

Spec == Init /\ [][Next]_vars

----------------------------------------------------------------------------
(* Properties.  The note an operation worked on is the note ensureDailyNote *)
(* found or created for it; a section is looked up the way the source does, *)
(* by the first line that starts with its level-2 header.                  *)

NotePath == dailyPath(last.day)
NoteBefore == ensureDailyNote(last.pre, last.day)[NotePath]
NoteAfter == fs[NotePath]

HeaderLines(lines, header) == {i \in 1..Len(lines) : StartsWith(lines[i], header)}
HasSection(content, name) == HeaderLines(Split(content), "## " \o name) # {}

\* a blank line or an HTML comment line
Skippable(line) == StartsWith(line, "<!-- ") \/ Trim(line) = ""

\* new is old with the one line added as the first content line of the first
\* section whose header starts with the given header
InsertedFirst(old, new, header, line) ==
    /\ HeaderLines(old, header) # {}
    /\ LET h == MinOf(HeaderLines(old, header)) IN
       \E k \in (h + 1)..(Len(old) + 1) :
           /\ new = SubSeq(old, 1, k - 1) \o <<line>> \o SubSeq(old, k, Len(old))
           /\ \A j \in (h + 1)..(k - 1) : Skippable(old[j])
           /\ k = Len(old) + 1 \/ ~Skippable(old[k])

\* the texts of the unchecked (checked) Priorities items of a note
UncheckedTexts(content) ==
    LET items == PrioritiesOf(content) IN
    {StripRolledOver(items[i].text) : i \in {j \in 1..Len(items) : ~items[j].done}}
CheckedTexts(content) ==
    LET items == PrioritiesOf(content) IN {items[i].text : i \in {j \in 1..Len(items) : items[j].done}}

\* no template is installed, or the template has exactly one placeholder line
AnchoredTemplate(f) ==
    \/ ~Exists(f, TemplatePath)
    \/ Cardinality({i \in 1..Len(f[TemplatePath]) :
                       StartsWith(SubSeq(f[TemplatePath], i, Len(f[TemplatePath])), Placeholder)}) = 1

Created == last.op = "ensure" /\ ~Exists(last.pre, NotePath)
Yesterday == dailyPath(last.day - 1)

\* C1 as stated: when ensure(D+1) creates the note and the note of D has an
\* unchecked Priorities item X (not blank) and a checked item Y, the new
\* note's Priorities hold an unchecked item "X *(rolled over)*" and no item Y.
C1_RolloverAsStated ==
    (Created /\ Exists(last.pre, Yesterday) /\ AnchoredTemplate(last.pre)) =>
        LET items == PrioritiesOf(NoteAfter) IN
        /\ \A X \in UncheckedTexts(last.pre[Yesterday]) :
               Trim(X) # "" =>
                   \E i \in 1..Len(items) : items[i] = [text |-> X \o " " \o RolledOver, done |-> FALSE]
        /\ \A Y \in CheckedTexts(last.pre[Yesterday]) :
               \A i \in 1..Len(items) : items[i].text # Y

C3_InsertedAsFirstContentLine ==
    (last.op = "appendToSection" /\ HasSection(NoteBefore, last.name)) =>
        /\ InsertedFirst(Split(NoteBefore), Split(NoteAfter), "## " \o last.name, last.line)
        /\ \A q \in (DOMAIN fs) \ {NotePath} : q \in DOMAIN last.pre /\ fs[q] = last.pre[q]

C3_Witness ==
    /\ last.op = "appendToSection"
    /\ HasSection(NoteBefore, last.name)
    /\ LET old == Split(NoteBefore)
           new == Split(NoteAfter)
           h == MinOf(HeaderLines(old, "## " \o last.name))
       IN /\ h + 2 <= Len(old)
          /\ StartsWith(old[h + 1], "<!-- ")
          /\ old[h + 2] = ""
          /\ new[h + 3] = last.line
          /\ Len(new) = Len(old) + 1

\* a checklist line "- [ ] text" or "- [x] text" with non-empty text
WellFormed(line) == (StartsWith(line, "- [ ] ") \/ StartsWith(line, "- [x] ")) /\ Len(line) > 6
\* ... whose text starts with a character that is not white space
SolidText(line) == WellFormed(line) /\ Char(line, 7) \notin Ws
\* the items the lines stand for
ItemsFor(lines) ==
    [i \in 1..Len(lines) |->
        [text |-> SubSeq(lines[i], 7, Len(lines[i])), done |-> StartsWith(lines[i], "- [x] ")]]

\* the note has a Priorities header and no second one before the section ends
OnePrioritiesSection(content) ==
    LET lines == Split(content)
        P == HeaderLines(lines, "## Priorities")
    IN /\ P # {}
       /\ LET others == {j \in 1..Len(lines) :
                            /\ j > MinOf(P)
                            /\ StartsWith(lines[j], "## ")
                            /\ ~StartsWith(lines[j], "## Priorities")}
          IN \A j \in P : j = MinOf(P) \/ (others # {} /\ j > MinOf(others))

C9_EnsureIdempotent ==
    (last.op = "ensure" /\ Exists(last.pre, NotePath)) => fs = last.pre

C9_Witness ==
    /\ last.op = "ensure"
    /\ Exists(last.pre, NotePath)
    /\ Exists(last.pre, TemplatePath)
    /\ Exists(last.pre, Yesterday)
    /\ extractIncompletePriorities(last.pre[Yesterday]) # <<>>
    /\ NewNote(last.pre, last.day) # last.pre[NotePath]
    /\ fs = last.pre

\* C10: appendToLog keeps its entry: without a line starting with "## Log"
\* the note becomes the old content, a line break, the entry and a line break;
\* otherwise the entry is the first content line of the first such section.
C10_LogEntryKept ==
    last.op = "appendToLog" =>
        IF HasSection(NoteBefore, "Log")
        THEN InsertedFirst(Split(NoteBefore), Split(NoteAfter), "## Log", last.line)
        ELSE NoteAfter = NoteBefore \o "\n" \o last.line \o "\n"

C10_Witness ==
    /\ last.op = "appendToLog"
    /\ Exists(last.pre, NotePath)
    /\ ~HasSection(NoteBefore, "Log")
    /\ EndsWith(NoteAfter, last.line \o "\n")
    /\ StartsWith(NoteAfter, last.pre[NotePath])

\* the eight fields of a DeepExtraction
ExtractionFields ==
    {"summary", "decisions", "solutions", "learnings", "todos", "commands",
     "projectNotes", "resourceTopics"}

\* a record that carries all eight fields
Populated(x) == x.t = "obj" /\ DOMAIN x.v = ExtractionFields

\* C5 as stated: parseDeepExtraction returns null for the empty string, for
\* prose and for a JSON array, and for a valid object in a json fence the
\* populated record it returns for the object without the fence.
C5_ParseAsStated ==
    last.op = "parse" =>
        /\ reply \in {"", Prose, JsonArray} => last.value = JNull
        /\ \A body \in {JsonFull, JsonQuiet} :
               reply = Wrap("json", body) =>
                   last.value = parseDeepExtraction(body) /\ Populated(last.value)

\* C6 as stated: the result of parseDeepExtraction is null or a record with
\* all eight fields.
C6_NeverPartialAsStated ==
    last.op = "parse" => (last.value = JNull \/ Populated(last.value))

\* the handler stopped, failed, or its reply did not decode to a full record
ExtractionFailed ==
    /\ last.op \in {"compactStart", "compactKey", "compactReply", "compactFail"}
    /\ \/ last.outcome \in {"skipped", "failed", "thrown"}
       \/ last.op = "compactReply" /\ ~Populated(last.value)

\* C7 as stated: when deep extraction fails or is cancelled at any point, no
\* document was modified by it.
C7_AllOrNothingAsStated == ExtractionFailed => fs = last.pre

Rev(xs) == [i \in 1..Len(xs) |-> xs[Len(xs) + 1 - i]]
Bullets(xs) == [i \in 1..Len(xs) |-> "- " \o xs[i]]
CountIn(xs, x) == Cardinality({i \in 1..Len(xs) : xs[i] = x})
FirstIn(xs, x) == MinOf({i \in 1..Len(xs) : xs[i] = x})

\* the lines of a section: after its header, up to the next level-2 header
SectionBody(content, name) ==
    LET lines == Split(content)
        h == MinOf(HeaderLines(lines, "## " \o name))
        next == {j \in (h + 1)..Len(lines) : StartsWith(lines[j], "## ")}
    IN SubSeq(lines, h + 1, IF next = {} THEN Len(lines) ELSE MinOf(next) - 1)

\* a section body from its first content line on
FromFirstContent(body) ==
    LET solid == {i \in 1..Len(body) : ~Skippable(body[i])}
    IN IF solid = {} THEN <<>> ELSE SubSeq(body, MinOf(solid), Len(body))

\* the note as the first of two runs found or created it
NoteAtStart == ensureDailyNote(prev.pre, prev.day)[dailyPath(prev.day)]

\* agent_end ran twice on the same entries and wrote each time, on a note
\* with Decisions and Learned sections
TwoRuns ==
    /\ last.op = "agentEnd" /\ prev.op = "agentEnd"
    /\ last.input = prev.input /\ last.day = prev.day
    /\ last.outcome = "written" /\ prev.outcome = "written"
    /\ HasSection(NoteAtStart, "Decisions") /\ HasSection(NoteAtStart, "Learned")

\* C8 as stated: after the two runs every extracted bullet stands exactly
\* twice in its section, the bullets in their extraction order.
C8_TwiceInOrderAsStated ==
    TwoRuns =>
        \A part \in {<<"Decisions", last.knowledge.decisions>>, <<"Learned", last.knowledge.learnings>>} :
            LET body == SectionBody(NoteAfter, part[1])
                bs == Bullets(part[2])
            IN /\ \A i \in 1..Len(bs) : CountIn(body, bs[i]) = 2
               /\ \A i, j \in 1..Len(bs) : i < j => FirstIn(body, bs[i]) < FirstIn(body, bs[j])

\* C8, amended: the two runs add every extracted bullet exactly twice, and
\* the section's content starts with the bullets in reverse extraction order,
\* once for each run.
C8_TwiceMostRecentFirst ==
    TwoRuns =>
        \A part \in {<<"Decisions", last.knowledge.decisions>>, <<"Learned", last.knowledge.learnings>>} :
            LET before == SectionBody(NoteAtStart, part[1])
                after == SectionBody(NoteAfter, part[1])
                bs == Bullets(part[2])
                top == FromFirstContent(after)
            IN /\ \A i \in 1..Len(bs) : CountIn(after, bs[i]) = CountIn(before, bs[i]) + 2
               /\ Len(top) >= 2 * Len(bs)
               /\ SubSeq(top, 1, 2 * Len(bs)) = Rev(bs) \o Rev(bs)

C8_Witness ==
    /\ TwoRuns
    /\ Len(last.knowledge.decisions) >= 2
    /\ Len(last.knowledge.learnings) >= 1
    /\ CountIn(SectionBody(NoteAfter, "Decisions"), "- " \o last.knowledge.decisions[1]) = 2
    /\ FromFirstContent(SectionBody(NoteAfter, "Decisions"))[1] = "- " \o last.knowledge.decisions[2]

----------------------------------------------------------------------------
(* lightExtract: the arrays it returns *)

Kinds == {"decisions", "solutions", "learnings", "todos", "commands"}

\* the lines pushed for a category, before deduplication
Matching(kind) == Pushed(RoleLines(last.input), kind)

\* the indices at which a line occurs for the first time
FirstSeen(all) == {i \in 1..Len(all) : \A j \in 1..(i - 1) : all[j] # all[i]}

\* the first n distinct elements of all, in encounter order
FirstDistinct(all, n) ==
    LET F == FirstSeen(all) IN
    [k \in 1..Min(n, Cardinality(F)) |->
        all[CHOOSE i \in F : Cardinality({j \in F : j <= i}) = k]]

\* C11: each array lightExtract returns has at most 5 entries, no two of
\* them equal, and is the first five distinct matching lines in the order
\* they were encountered.
C11_FirstFiveDistinct ==
    last.op = "extract" =>
        \A kind \in Kinds :
            LET r == last.knowledge[kind] IN
            /\ Len(r) <= 5
            /\ \A i, j \in 1..Len(r) : i # j => r[i] # r[j]
            /\ r = FirstDistinct(Matching(kind), 5)

C11_Witness ==
    /\ last.op = "extract"
    /\ Len(Matching("decisions")) = 9
    /\ Cardinality(FirstSeen(Matching("decisions"))) = 7
    /\ last.knowledge.decisions =
           <<"We decided on plan A", "We decided on plan B", "We decided on plan C",
             "We decided on plan D", "We decided on plan E">>

\* the categories with a lower and an upper length limit
BoundedKinds == {"decisions", "solutions", "learnings", "todos"}

HasMarker(kind, line) ==
    CASE kind = "decisions" -> \E kw \in DecisionMarkers : LitHit(line, kw)
      [] kind = "solutions" -> \E kw \in SolutionMarkers : LitHit(line, kw)
      [] kind = "learnings" -> \/ \E kw \in LearningMarkers : LitHit(line, kw)
                               \/ \E kw \in LearningWsMarkers : WsHit(line, kw)
      [] kind = "todos"     -> \E kw \in TodoMarkers : LitHit(line, kw)

LowerLimit(kind) == IF kind \in {"decisions", "solutions"} THEN 15 ELSE 10
UpperLimit(kind) == IF kind = "todos" THEN 200 ELSE 300

\* the turn is one line of text
OneLine == Len(RoleLines(last.input)) = 1
TheLine == RoleLines(last.input)[1].line

\* C12 as stated: a line with a marker is classified exactly when its length
\* is at least the lower limit and less than the upper limit.
C12_LengthBoundsAsStated ==
    (last.op = "extract" /\ OneLine) =>
        \A kind \in BoundedKinds :
            HasMarker(kind, TheLine) =>
                (last.knowledge[kind] # <<>>
                    <=> (Len(TheLine) >= LowerLimit(kind) /\ Len(TheLine) < UpperLimit(kind)))

\* C12, amended: a line with a marker is classified exactly when its length
\* is greater than the lower limit and less than the upper limit.
C12_LengthBounds ==
    (last.op = "extract" /\ OneLine) =>
        \A kind \in BoundedKinds :
            HasMarker(kind, TheLine) =>
                (last.knowledge[kind] # <<>>
                    <=> (Len(TheLine) > LowerLimit(kind) /\ Len(TheLine) < UpperLimit(kind)))

C12_Witness ==
    /\ last.op = "extract"
    /\ OneLine
    /\ HasMarker("decisions", TheLine)
    /\ Len(TheLine) = 16
    /\ last.knowledge.decisions = <<Trim(TheLine)>>

----------------------------------------------------------------------------
(* writeDeepExtraction: what it leaves in the inbox, the reference          *)
(* documents and the project documents                                      *)

DocsIn(f, dir) == {p \in DOMAIN f : StartsWith(p, dir)}

\* solutions, commands or todos are non-empty
HasCaptures(x) ==
    \E name \in {"solutions", "commands", "todos"} : Get(x, name).v # <<>>

\* C13 as stated: a writeDeepExtraction call with solutions, commands or
\* todos adds exactly one inbox document and leaves every existing one as it
\* was, whatever the time of the call; a call without them adds none.
C13_OneCapturePerCallAsStated ==
    last.op = "writeDeep" =>
        /\ Cardinality(DocsIn(fs, InboxDir))
               = Cardinality(DocsIn(last.pre, InboxDir)) + (IF HasCaptures(last.value) THEN 1 ELSE 0)
        /\ \A p \in DocsIn(last.pre, InboxDir) : fs[p] = last.pre[p]

TopicsOf(x) == Get(x, "resourceTopics").v
ResourcePathOf(topic) == ResourcesDir \o slugify(topic) \o ".md"

\* C14: writeDeepExtraction leaves every existing reference document as it
\* was, and the documents it adds are one stub for each slug of its topics
\* that had no document, written for the first topic with that slug.
C14_StubsOnlyForNewSlugs ==
    last.op = "writeDeep" =>
        LET topics == TopicsOf(last.value)
            paths == {ResourcePathOf(topics[i]) : i \in 1..Len(topics)}
        IN /\ \A p \in DocsIn(last.pre, ResourcesDir) : p \in DOMAIN fs /\ fs[p] = last.pre[p]
           /\ DocsIn(fs, ResourcesDir) \ DocsIn(last.pre, ResourcesDir) = paths \ DOMAIN last.pre
           /\ \A i \in 1..Len(topics) :
                  (/\ ResourcePathOf(topics[i]) \notin DOMAIN last.pre
                   /\ \A j \in 1..(i - 1) : ResourcePathOf(topics[j]) # ResourcePathOf(topics[i]))
                  => fs[ResourcePathOf(topics[i])] = ResourceStub(topics[i], last.day)

C14_Witness ==
    /\ last.op = "writeDeep"
    /\ Len(TopicsOf(last.value)) = 2
    /\ TopicsOf(last.value)[1] # TopicsOf(last.value)[2]
    /\ ResourcePathOf(TopicsOf(last.value)[1]) = ResourcePathOf(TopicsOf(last.value)[2])
    /\ ResourcePathOf(TopicsOf(last.value)[1]) \notin DOMAIN last.pre
    /\ DocsIn(last.pre, ResourcesDir) # {}
    /\ Cardinality(DocsIn(fs, ResourcesDir)) = Cardinality(DocsIn(last.pre, ResourcesDir)) + 1

\* new is old with the line inserted as the first non-blank line after the
\* first line that starts with the header
InsertedAfterBlanks(old, new, header, line) ==
    /\ HeaderLines(old, header) # {}
    /\ Len(new) = Len(old) + 1
    /\ \E k \in 1..Len(new) :
           /\ k > MinOf(HeaderLines(old, header))
           /\ new[k] = line
           /\ SubSeq(new, 1, k - 1) = SubSeq(old, 1, k - 1)
           /\ SubSeq(new, k + 1, Len(new)) = SubSeq(old, k, Len(old))
           /\ \A j \in (MinOf(HeaderLines(old, header)) + 1)..(k - 1) : Trim(old[j]) = ""

\* C15 as stated: with projectNotes, when project detection returns a project
\* note whose document has a Progress section, that document gains one dated
\* bullet as the first non-blank line after the header and nothing else
\* changes in it; otherwise no project document changes and nothing is
\* raised.
C15_ProgressBulletAsStated ==
    (last.op = "writeDeep" /\ Truthy(Get(last.value, "projectNotes"))) =>
        LET found == detectProject(last.pre, last.name)
            doc == ProjectsDir \o found \o ".md"
            bullet == "- " \o isoDate(last.day) \o ": " \o Get(last.value, "projectNotes").v
        IN /\ last.outcome # "thrown"
           /\ DocsIn(fs, ProjectsDir) = DocsIn(last.pre, ProjectsDir)
           /\ IF found # Undefined /\ HasSection(last.pre[doc], "Progress")
              THEN /\ InsertedAfterBlanks(Split(last.pre[doc]), Split(fs[doc]), "## Progress", bullet)
                   /\ \A p \in DocsIn(last.pre, ProjectsDir) \ {doc} : fs[p] = last.pre[p]
              ELSE \A p \in DocsIn(last.pre, ProjectsDir) : fs[p] = last.pre[p]

----------------------------------------------------------------------------
(* writeToDaily: the Log summary line *)

\* at least one of decisions, solutions, learnings is non-empty
HasCounts(k) == Len(k.decisions) > 0 \/ Len(k.solutions) > 0 \/ Len(k.learnings) > 0

HasProject(k) == k.projectContext # Undefined /\ k.projectContext # ""

\* the lines of the day's note written to the Log at the time of the call
LogLinesAt(f) ==
    IF ~Exists(f, NotePath) THEN {}
    ELSE {i \in 1..Len(Split(f[NotePath])) :
             StartsWith(Split(f[NotePath])[i], "- " \o last.line \o " -- ")}

----------------------------------------------------------------------------
(* slugify *)

Slug == last.value.v

\* at most 60 characters from a-z, 0-9 and the hyphen, no hyphen at the
\* start and no two hyphens in a row
SlugShape(g) ==
    /\ Len(g) <= 60
    /\ \A i \in 1..Len(g) : IsSlugChar(Char(g, i)) \/ Char(g, i) = "-"
    /\ ~StartsWith(g, "-")
    /\ \A i \in 1..(Len(g) - 1) : ~(Char(g, i) = "-" /\ Char(g, i + 1) = "-")

\* C17 as stated: a slug has at most 60 characters over [a-z0-9-], neither
\* begins nor ends with a hyphen and has no two adjacent hyphens; the slug of
\* "Terraform S3 bucket policy!!" is "terraform-s3-bucket-policy".
C17_SlugShapeAsStated ==
    last.op = "slugify" =>
        /\ SlugShape(Slug)
        /\ ~EndsWith(Slug, "-")
        /\ last.line = "Terraform S3 bucket policy!!" => Slug = "terraform-s3-bucket-policy"

\* C17, amended: a slug has at most 60 characters over [a-z0-9-], does not
\* begin with a hyphen and has no two adjacent hyphens; it ends with a hyphen
\* only when it was cut to 60 characters; the slug of
\* "Terraform S3 bucket policy!!" is "terraform-s3-bucket-policy".
C17_SlugShape ==
    last.op = "slugify" =>
        /\ SlugShape(Slug)
        /\ EndsWith(Slug, "-") => (Len(Slug) = 60 /\ Len(last.line) > 60)
        /\ last.line = "Terraform S3 bucket policy!!" => Slug = "terraform-s3-bucket-policy"

C17_Witness ==
    /\ last.op = "slugify"
    /\ Len(last.line) > 60
    /\ Len(Slug) = 60
    /\ EndsWith(Slug, "-")

----------------------------------------------------------------------------
(* session_shutdown *)

\* session_shutdown has run, and it or the handler before it changed a
\* document of the knowledge base
ChangedBeforeExit ==
    /\ last.op = "shutdown"
    /\ \/ fs # last.pre
       \/ prev.op # "none" /\ last.pre # prev.pre

\* C18 as stated: when the extension created or modified a document during
\* the session, session_shutdown has run the re-index.
C18_ExitReindexesAsStated == ChangedBeforeExit => last.outcome = "reindexed"

----------------------------------------------------------------------------
(* getPriorities: the items it returns *)

\* the index of "[" in a checklist line: "-", white space, "[", one mark, "]"
BoxAt(line, marks) ==
    {j \in 3..(Len(line) - 2) :
        /\ Char(line, 1) = "-"
        /\ \A i \in 2..(j - 1) : Char(line, i) \in Ws
        /\ Char(line, j) = "[" /\ Char(line, j + 1) \in marks /\ Char(line, j + 2) = "]"}

\* where the text of a checklist line may start: after the box and at least
\* one white-space character, with at least one character left
TextStarts(line, marks) ==
    {k \in 1..Len(line) :
        \E j \in BoxAt(line, marks) :
            k > j + 3 /\ \A i \in (j + 3)..(k - 1) : Char(line, i) \in Ws}

\* the text the pattern captures: white space is taken as far as it goes
TextOf(line, marks) == SubSeq(line, MaxOf(TextStarts(line, marks)), Len(line))

Checked(line) == TextStarts(line, {"x", "X"}) # {}
Unchecked(line) == TextStarts(line, Ws) # {} /\ Trim(TextOf(line, Ws)) # ""

\* the lines of the Priorities section: after the first header that starts
\* with "## Priorities", before the next level-2 header that does not
SectionLinesOf(lines) ==
    LET P == HeaderLines(lines, "## Priorities") IN
    IF P = {} THEN {}
    ELSE {i \in (MinOf(P) + 1)..Len(lines) :
             \A e \in (MinOf(P) + 1)..i :
                 StartsWith(lines[e], "## ") => StartsWith(lines[e], "## Priorities")}

\* the items of the lines that pass a test, in document order
ItemsWhere(lines, Counts(_), Item(_)) ==
    LET picked == SelectSeq([i \in 1..Len(lines) |-> i],
                            LAMBDA i : i \in SectionLinesOf(lines) /\ Counts(lines[i]))
    IN [n \in 1..Len(picked) |-> Item(lines[picked[n]])]

ItemAsRead(line) ==
    IF Checked(line) THEN [text |-> TextOf(line, {"x", "X"}), done |-> TRUE]
    ELSE [text |-> TextOf(line, Ws), done |-> FALSE]

\* a checked line whatever follows the box, its text possibly empty
CheckedAnyText(line) == BoxAt(line, {"x", "X"}) # {}

ItemAsStated(line) ==
    IF CheckedAnyText(line)
    THEN [text |-> IF Checked(line) /\ Trim(TextOf(line, {"x", "X"})) # ""
                   THEN TextOf(line, {"x", "X"}) ELSE "",
          done |-> TRUE]
    ELSE [text |-> TextOf(line, Ws), done |-> FALSE]

----------------------------------------------------------------------------
(* appendToSection: the header it selects *)

\* the lines that are exactly the level-2 header for a name
ExactHeaders(lines, name) == {i \in 1..Len(lines) : lines[i] = "## " \o name}

\* new is old with the line added as the first content line under line h
InsertedUnder(old, new, h, line) ==
    \E k \in (h + 1)..(Len(old) + 1) :
        /\ new = SubSeq(old, 1, k - 1) \o <<line>> \o SubSeq(old, k, Len(old))
        /\ \A j \in (h + 1)..(k - 1) : Skippable(old[j])
        /\ k = Len(old) + 1 \/ ~Skippable(old[k])

\* C20 as stated: appendToSection acts on the first line that is exactly the
\* level-2 header for the name; a note without such a line is left as it
\* was, also when a header of it begins with the name.
C20_ExactHeaderAsStated ==
    last.op = "appendToSection" =>
        IF ExactHeaders(Split(NoteBefore), last.name) = {}
        THEN NoteAfter = NoteBefore
        ELSE InsertedUnder(Split(NoteBefore), Split(NoteAfter),
                           MinOf(ExactHeaders(Split(NoteBefore), last.name)), last.line)

----------------------------------------------------------------------------
(* C21: templates without the one placeholder line *)

\* the unchecked checklist lines of a document that have no text
BlankItems(content) ==
    LET lines == Split(content) IN
    {i \in 1..Len(lines) :
        StartsWith(lines[i], "- [ ]") /\ Trim(SubSeq(lines[i], 6, Len(lines[i]))) = ""}

\* the template as ensureDailyNote fills it in for the new note
FilledTemplate == InstantiateTemplate(last.pre[TemplatePath], last.day)

\* the items yesterday's note hands over
Incomplete == extractIncompletePriorities(last.pre[Yesterday])

MentionsRollover(content) == Includes(content, RolledOver)

\* C21 as stated: when the template has no blank unchecked checklist line, or
\* more than one, ensure(D) creates the note and the note has no rolled-over
\* item, whatever yesterday's note holds.
C21_NoRolloverAsStated ==
    (/\ Created
     /\ Exists(last.pre, TemplatePath)
     /\ Cardinality(BlankItems(last.pre[TemplatePath])) # 1) =>
        /\ Exists(fs, NotePath)
        /\ ~MentionsRollover(NoteAfter)

\* C21, amended: ensure(D) always creates the note.  When the template lacks
\* the text "- [ ] " followed by a line break, the note is the filled-in
\* template and rollover is skipped; when the template has that text, once or
\* more often, and yesterday's note hands over items, text is inserted in front
\* of the first occurrence and everything else is kept.
C21_RolloverNeedsAnchor ==
    (Created /\ Exists(last.pre, TemplatePath)) =>
        /\ Exists(fs, NotePath)
        /\ ~Includes(FilledTemplate, Placeholder) => NoteAfter = FilledTemplate
        /\ (/\ Includes(FilledTemplate, Placeholder)
            /\ Exists(last.pre, Yesterday)
            /\ Incomplete # <<>>) =>
               LET at == IndexOf(FilledTemplate, Placeholder) IN
               /\ Len(NoteAfter) > Len(FilledTemplate)
               /\ SubSeq(NoteAfter, 1, at - 1) = SubSeq(FilledTemplate, 1, at - 1)
               /\ EndsWith(NoteAfter, SubSeq(FilledTemplate, at, Len(FilledTemplate)))
               /\ MentionsRollover(NoteAfter)

C21_Witness ==
    /\ Created
    /\ Exists(last.pre, TemplatePath)
    /\ BlankItems(last.pre[TemplatePath]) = {}
    /\ Exists(last.pre, Yesterday)
    /\ Incomplete # <<>>
    /\ NoteAfter = FilledTemplate
    /\ ~MentionsRollover(NoteAfter)

----------------------------------------------------------------------------
(* C22: the items rollover carries *)

\* the content a new note starts from: the filled-in template or the skeleton
Base == IF Exists(last.pre, TemplatePath) THEN FilledTemplate ELSE Skeleton(last.day)

\* an unchecked checklist line, whatever its text
UncheckedAnyText(line) == TextStarts(line, Ws) # {}

\* the text of an unchecked line without a trailing rollover marker
Unmarked(line) == StripRolledOver(TextOf(line, Ws))

\* the texts of yesterday's Priorities section that are to be carried: those
\* of the unchecked lines whose text without the marker is not blank
CarriedAsStated ==
    ItemsWhere(Split(last.pre[Yesterday]),
               LAMBDA l : UncheckedAnyText(l) /\ Trim(Unmarked(l)) # "", Unmarked)

MarkedLines(content) ==
    LET lines == Split(content) IN {i \in 1..Len(lines) : MentionsRollover(lines[i])}

\* C22 as stated: the items handed over from yesterday's note are the texts,
\* without a trailing marker, of the unchecked Priorities lines whose text
\* without the marker is not empty, and a note created from a template with
\* the placeholder has one marked line for each of them.
C22_CarriedAsStated ==
    (Created /\ Exists(last.pre, Yesterday)) =>
        /\ Incomplete = CarriedAsStated
        /\ Includes(Base, Placeholder) =>
               Cardinality(MarkedLines(NoteAfter)) = Len(CarriedAsStated)

----------------------------------------------------------------------------
(* C23: where the rolled-over items go *)

\* the one blank unchecked line of a document is "- [ ] ", lies in the
\* Priorities section and is followed by a line break
AnchorOf(content) == CHOOSE p \in BlankItems(content) : TRUE
Anchored(content) ==
    LET lines == Split(content) IN
    /\ Cardinality(BlankItems(content)) = 1
    /\ lines[AnchorOf(content)] = "- [ ] "
    /\ AnchorOf(content) \in SectionLinesOf(lines)
    /\ AnchorOf(content) < Len(lines)

\* the lines that stand for the items handed over, in yesterday's order
MarkedItems == [i \in 1..Len(Incomplete) |-> "- [ ] " \o Incomplete[i] \o " *(rolled over)*"]

\* C23 as stated: the new note is the starting content with the handed-over
\* items, marked, in yesterday's order, as consecutive lines directly before
\* the placeholder line; every other line is as in the starting content.
C23_SplicedBeforePlaceholderAsStated ==
    (Created /\ Exists(last.pre, Yesterday) /\ Anchored(Base)) =>
        LET lines == Split(Base)
            p == AnchorOf(Base)
        IN Split(NoteAfter) = SubSeq(lines, 1, p - 1) \o MarkedItems \o SubSeq(lines, p, Len(lines))

----------------------------------------------------------------------------
(* C24: what writePriorities replaces *)

\* the level-2 headers below line h
HeadersBelow(lines, h) == {j \in (h + 1)..Len(lines) : StartsWith(lines[j], "## ")}

\* the first line after the section that starts at header h
SectionEnd(lines, h) ==
    IF HeadersBelow(lines, h) = {} THEN Len(lines) + 1 ELSE MinOf(HeadersBelow(lines, h))

\* C24 as stated: writePriorities(lines) puts the given lines and one blank
\* line in place of the lines between the first Priorities header and the next
\* level-2 header (or the end); the lines up to the header and from the next
\* header on stay; a note without a Priorities header is left as it was.
C24_SectionReplacedAsStated ==
    last.op = "writePriorities" =>
        LET old == Split(NoteBefore)
            P == HeaderLines(old, "## Priorities")
        IN IF P = {} THEN NoteAfter = NoteBefore
           ELSE Split(NoteAfter) =
                    SubSeq(old, 1, MinOf(P)) \o last.lines \o <<"">>
                    \o SubSeq(old, SectionEnd(old, MinOf(P)), Len(old))

----------------------------------------------------------------------------
(* C25: daily notes only grow *)

IsDaily(p) == StartsWith(p, "daily/")

\* the lines of a occur in b in the same order
RECURSIVE IsSubseq(_, _)
IsSubseq(a, b) ==
    IF a = <<>> THEN TRUE
    ELSE IF b = <<>> THEN FALSE
    ELSE IF Head(a) = Head(b) THEN IsSubseq(Tail(a), Tail(b))
    ELSE IsSubseq(a, Tail(b))

\* every daily note of the old tree is in the new tree with all its lines
Kept(old, new) ==
    \A p \in DOMAIN old :
        IsDaily(p) => p \in DOMAIN new /\ IsSubseq(Split(old[p]), Split(new[p]))

\* the lines of a document that are not in its Priorities section
OutsidePriorities(lines) ==
    LET out == SelectSeq([i \in 1..Len(lines) |-> i], LAMBDA i : i \notin SectionLinesOf(lines))
    IN [n \in 1..Len(out) |-> lines[out[n]]]

\* every daily note of the old tree is in the new tree with all the lines it
\* had outside its Priorities section
KeptOutsidePriorities(old, new) ==
    \A p \in DOMAIN old :
        IsDaily(p) => p \in DOMAIN new /\ IsSubseq(OutsidePriorities(Split(old[p])), Split(new[p]))

Appends(op) == op \in {"ensure", "appendToSection", "appendToLog", "writeLight", "writeDeep"}

----------------------------------------------------------------------------
(* C26: the extraction handlers swallow failures *)

\* a step of the agent_end or the session_before_compact handler has run
HandlerRan ==
    last.op \in {"agentEnd", "compactStart", "compactKey", "compactReply", "compactFail"}

\* the handler ended without an extraction: nothing worth writing, too little
\* input, no model or key, a failed completion, a reply that gives none
NoExtraction == last.outcome \in {"skipped", "failed"}

----------------------------------------------------------------------------
(* C27: rollover over several days *)

\* the content the note of day d starts from
BaseFor(d) ==
    IF Exists(fs, TemplatePath) THEN InstantiateTemplate(fs[TemplatePath], d) ELSE Skeleton(d)

\* the days from the second on whose note and all earlier notes exist, each
\* created from content with the placeholder in its Priorities section
RolledDays ==
    {d \in 2..MaxDay : /\ \A e \in 1..d : Exists(fs, dailyPath(e))
                       /\ \A e \in 2..d : Anchored(BaseFor(e))}

\* the texts, without marker, of the unchecked items of the first day's note
OriginalTexts ==
    LET lines == Split(fs[dailyPath(1)]) IN
    {Unmarked(lines[i]) : i \in {j \in SectionLinesOf(lines) : Unchecked(lines[j])}}

\* the unchecked Priorities lines of a document whose text holds X
LinesHolding(content, X) ==
    LET lines == Split(content) IN
    {i \in SectionLinesOf(lines) : UncheckedAnyText(lines[i]) /\ Includes(TextOf(lines[i], Ws), X)}

\* a text that is X and one marker, give or take white space
MarkedOnce(text, X) ==
    /\ StripRolledOver(text) # text
    /\ Trim(StripRolledOver(text)) = Trim(X)

\* C27 as stated: on every day after the first of a run of days whose notes
\* ensure created, each unchecked item of the first day is held by exactly one
\* Priorities line, and that line's text is the item's text and one marker.
C27_OneMarkerAsStated ==
    \A d \in RolledDays :
        \A X \in OriginalTexts :
            Trim(X) # "" =>
                LET lines == Split(fs[dailyPath(d)])
                    held == LinesHolding(fs[dailyPath(d)], X)
                IN /\ Cardinality(held) = 1
                   /\ \A i \in held : MarkedOnce(TextOf(lines[i], Ws), X)

----------------------------------------------------------------------------
(* C28: rollover and the note of the day before *)

\* a note of a day before yesterday hands over items
EarlierItems ==
    \E e \in 0..(last.day - 2) :
        /\ Exists(last.pre, dailyPath(e))
        /\ extractIncompletePriorities(last.pre[dailyPath(e)]) # <<>>

\* C28: when ensure(D) creates the note and the day before D has no note,
\* the new note is its starting content without any rolled-over item, also
\* when an earlier day's note has unchecked priorities; in every case ensure(D)
\* leaves every file that existed, the note of the day before among them, as
\* it was.
C28_OnlyYesterdayReadNeverWritten ==
    last.op = "ensure" =>
        /\ (Created /\ ~Exists(last.pre, Yesterday)) => NoteAfter = Base
        /\ \A p \in DOMAIN last.pre : p \in DOMAIN fs /\ fs[p] = last.pre[p]

C28_Witness ==
    /\ Created
    /\ ~Exists(last.pre, Yesterday)
    /\ EarlierItems
    /\ Includes(Base, Placeholder)
    /\ NoteAfter = Base
    /\ ~MentionsRollover(NoteAfter)

----------------------------------------------------------------------------
(* C29: appends of interleaved handlers *)

\* a step of a handler or of the tool that may append to the daily note
Appender(op) == op \in {"agentEnd", "compactReply", "toolDaily", "shutdownLog"}

TodayPath == dailyPath(today)

\* the number of lines of today's note in a tree (0 without the note)
NoteLength(f) == IF Exists(f, TodayPath) THEN Len(Split(f[TodayPath])) ELSE 0

\* the operation before the last one added lines to today's note
PrevAppended == Exists(last.pre, TodayPath) /\ NoteLength(last.pre) > NoteLength(ensureDailyNote(prev.pre, today))

----------------------------------------------------------------------------
(* C30: context pruning *)

\* the positions of the brain-context messages of a list
BrainAt(messages) == {i \in 1..Len(messages) : messages[i].customType = BrainContext}

\* the list without its brain-context messages except the last one
OnlyLastBrain(messages) ==
    LET kept == SelectSeq([i \in 1..Len(messages) |-> i],
                          LAMBDA i : i \notin BrainAt(messages) \/ i = MaxOf(BrainAt(messages)))
    IN [n \in 1..Len(kept) |-> messages[kept[n]]]

\* C30: the context handler returns the list with at most one brain-context
\* message, the last one of its input, and every other message in its place
\* in the original order.
C30_OnlyLastBrainContextKept ==
    last.op = "context" =>
        /\ Cardinality(BrainAt(last.items)) <= 1
        /\ last.items = OnlyLastBrain(last.input)

C30_Witness ==
    /\ last.op = "context"
    /\ Len(last.input) = 4
    /\ BrainAt(last.input) = {1, 3}
    /\ last.items = <<last.input[2], last.input[3], last.input[4]>>

=============================================================================
